---- MODULE Spec2Model ----
(***************************************************************************)
(* Model of the Symphony-of-One hub server (src/unnamed/part_002): the     *)
(* in-memory maps rooms / agents / messages, the sqlite store behind       *)
(* db.run / db.all, the socket.io push sessions, and the HTTP handlers.    *)
(*                                                                         *)
(* Strings are sequences of one-character strings, so that the mention     *)
(* regex, the ISO / sqlite timestamp formats and parseInt are computed on  *)
(* characters.  Identifiers are pairs <<kind, n>>: <<"a",n>> agent ids,    *)
(* <<"r",n>> room names, <<"s",n>> socket ids, <<"u",n>> uuids.  Room      *)
(* names and socket ids live in one namespace, as they do in socket.io,    *)
(* where every socket sits in a room named by its own id.                  *)
(***************************************************************************)
EXTENDS Integers, Sequences, FiniteSets, TLC

\* ---------------------------------------------------------------- bounds
MaxAgents  == 2      \* agent ids a client may present
MaxRooms   == 2      \* room names a client may present
MaxSockets == 2      \* push sessions opened in one run
MaxIds     == 5      \* uuids drawn in one run
MaxTime    == 3      \* clock ticks (seconds) in one run
MaxTimeMsg == 1      \* clock ticks in a run of the messaging specification
SecondsPerDay == 3   \* length of a UTC day in clock ticks (scaled down)
MaxPending == 1      \* task updates waiting for sqlite at one time
MaxTasks   == 2      \* tasks created in one run

\* ------------------------------------------------------------- constants
DefaultLimit  == 100   \* const { since, limit = 100 } = req.query
PrefixLen     == 100   \* message.content.substring(0, 100)

\* ------------------------------------------------------------ identifiers
NULL      == <<"null", 0>>
UNDEFINED == <<"undefined", 0>>
AgentIds  == { <<"a", i>> : i \in 1..MaxAgents }
RoomNames == { <<"r", i>> : i \in 1..MaxRooms }
SocketIds == { <<"s", i>> : i \in 1..MaxSockets }
uuidv4(n) == <<"u", n>>

\* Display names and message contents offered by clients.
WordChars == {"a", "A", "_"}
Names     == { <<"a">>, <<"a", "-", "A">> }
Contents  == { <<"a">>,
               <<"@", "a">>,
               <<"@", "a", "@", "a">>,
               <<"@", "A">>,
               <<"@", "a", "-", "A">>,
               <<"@", "a", "-", " ", "@", "-", "a">> }

VARIABLES
  rooms,        \* Map name -> room {name, agents, createdAt, isActive}
  agents,       \* Map agentId -> agent record, as its entries in insertion order
  messages,     \* Map room name -> array of messages
  tasks,        \* Map taskId -> task, as its values in insertion order
  fileWatcher,  \* room names that own a chokidar watcher
  db,           \* committed rows of the sqlite tables
  dbQueue,      \* statements handed to db.run and not yet executed
  connected,    \* socket ids of the open push sessions
  sockRooms,    \* socket id -> socket.io rooms the socket has joined
  nextSock,     \* number of sockets opened so far
  sockAgents,   \* history: socket id -> agents its register frames bound it to
  now,          \* the clock, in seconds
  nextId,       \* number of uuids drawn so far
  res,          \* the response of the last request
  lastNotifs,   \* history: notifications built by the last handler
  delivered,    \* history: events the last handler delivered to sockets
  adapter       \* the agent adapter's globals and the request it awaits

vars == << rooms, agents, messages, tasks, fileWatcher, db, dbQueue,
           connected, sockRooms, nextSock, sockAgents, now, nextId, res,
           lastNotifs, delivered, adapter >>

\* ---------------------------------------------------------------- helpers
Min(a, b) == IF a < b THEN a ELSE b
Max(a, b) == IF a > b THEN a ELSE b
Range(s)  == { s[i] : i \in DOMAIN s }
Last(s)   == s[Len(s)]

RECURSIVE FilterBy(_, _)
\* Array.prototype.filter: the elements of s whose flag in keep is TRUE
FilterBy(s, keep) ==
  IF s = << >> THEN << >>
  ELSE (IF Head(keep) THEN << Head(s) >> ELSE << >>)
         \o FilterBy(Tail(s), Tail(keep))

\* Map.set
MapSet(m, k, v) == [x \in DOMAIN m \cup {k} |-> IF x = k THEN v ELSE m[x]]
\* Map.delete
MapDelete(m, k) == [x \in DOMAIN m \ {k} |-> m[x]]

\* ------------------------------------------------------------- timestamps
\* new Date().toISOString(): "<date>T<time>Z", kept as <<date, "T", time>>
toISOString(t) == << t \div SecondsPerDay, "T", t % SecondsPerDay >>
\* sqlite datetime('now'): "<date> <time>", kept as <<date, " ", time>>
datetimeNow(t) == << t \div SecondsPerDay, " ", t % SecondsPerDay >>
\* new Date(str).getTime(): NaN for a string that is no date
getTime(str) ==
  IF Len(str) = 3 THEN [nan |-> FALSE, val |-> str[1] * SecondsPerDay + str[3]]
  ELSE [nan |-> TRUE, val |-> 0]
\* the comparison x > y of two numbers: false when either is NaN
NumGreater(x, y) == ~x.nan /\ ~y.nan /\ x.val > y.val
\* truthiness of an optional string parameter
Truthy(v) == v # UNDEFINED /\ v # << >>
\* character code of the separator between date and time
CharCode(c) == IF c = " " THEN 32 ELSE 84
\* sqlite's text comparison  x > y  of two timestamp strings
TextGreater(x, y) ==
  \/ x[1] > y[1]
  \/ x[1] = y[1] /\ CharCode(x[2]) > CharCode(y[2])
  \/ x[1] = y[1] /\ CharCode(x[2]) = CharCode(y[2]) /\ x[3] > y[3]

\* a value as a template literal or a string method renders it: the string
\* "undefined" for a missing value, the string itself otherwise
stringOf(v) == IF v = UNDEFINED THEN <<"undefined">> ELSE v

\* --------------------------------------------------------- mention parser
RECURSIVE wordEnd(_, _)
\* \w+ : the index after the longest run of word characters from i on
wordEnd(s, i) ==
  IF i <= Len(s) /\ s[i] \in WordChars THEN wordEnd(s, i + 1) ELSE i

RECURSIVE segEnd(_, _)
\* (?:-\w+)* : the index after the longest chain of "-word" segments from i on
segEnd(s, i) ==
  IF i + 1 <= Len(s) /\ s[i] = "-" /\ s[i + 1] \in WordChars
    THEN segEnd(s, wordEnd(s, i + 1))
    ELSE i

RECURSIVE mentionRegexExec(_, _)
\* the while loop over mentionRegex.exec(content), resuming at lastIndex i
mentionRegexExec(s, i) ==
  IF i > Len(s) THEN << >>
  ELSE IF s[i] = "@" /\ i + 1 <= Len(s) /\ s[i + 1] \in WordChars
    THEN LET e == segEnd(s, wordEnd(s, i + 1))
         IN  << SubSeq(s, i + 1, e - 1) >> \o mentionRegexExec(s, e)
    ELSE mentionRegexExec(s, i + 1)

\* mentionRegex.exec(content) reads its argument as a string
parseMentions(content) == mentionRegexExec(stringOf(content), 1)

\* ------------------------------------------------------------- socket.io
\* io.to(target).emit(event, payload): every open socket that is in the
\* socket.io room `target` gets the event
EmitToFirst(conn, srooms, target, event, id) ==
  LET subs == { x \in conn : target \in srooms[x] }
  IN  IF subs = {} THEN {}
      ELSE { [sock |-> CHOOSE s \in subs : \A x \in subs : s[2] <= x[2],
              event |-> event, id |-> id] }

Emit(conn, srooms, target, event, id) ==
  { [sock |-> s, event |-> event, id |-> id] :
      s \in { x \in conn : target \in srooms[x] } }

\* ------------------------------------------------------ numbers, arrays
\* A JavaScript number is kept as [nan, val]; NaN has nan = TRUE.
Num(n) == [nan |-> FALSE, val |-> n]
NaN    == [nan |-> TRUE, val |-> 0]
\* unary minus
Negate(x) == [nan |-> x.nan, val |-> 0 - x.val]

Digits == <<"0", "1", "2", "3", "4", "5", "6", "7", "8", "9">>
IsDigit(c)  == \E d \in DOMAIN Digits : Digits[d] = c
DigitVal(c) == (CHOOSE d \in DOMAIN Digits : Digits[d] = c) - 1

RECURSIVE digitsEnd(_, _)
\* the index after the longest run of decimal digits of s from i on
digitsEnd(s, i) ==
  IF i <= Len(s) /\ IsDigit(s[i]) THEN digitsEnd(s, i + 1) ELSE i

RECURSIVE digitsValue(_, _, _)
\* the value of the decimal digits s[i..e-1]
digitsValue(s, i, e) ==
  IF e <= i THEN 0 ELSE 10 * digitsValue(s, i, e - 1) + DigitVal(s[e - 1])

\* parseInt(x): a number is converted to its decimal string and read back;
\* a string gives the integer of its longest signed-digit prefix, or NaN
parseInt(x) ==
  IF x.kind = "number" THEN Num(x.val)
  ELSE LET str   == x.chars
           signd == Len(str) >= 1 /\ str[1] \in {"-", "+"}
           start == IF signd THEN 2 ELSE 1
           e     == digitsEnd(str, start)
       IN  IF e = start THEN NaN
           ELSE IF signd /\ str[1] = "-"
                  THEN Negate(Num(digitsValue(str, start, e)))
                  ELSE Num(digitsValue(str, start, e))

\* slice with a plausible slip: the start index is taken from the front of
\* the array whatever its sign
sliceFromFront(arr, start) ==
  LET len == Len(arr)
      rel == IF start.nan THEN 0 ELSE start.val
      k   == Min(IF rel < 0 THEN 0 - rel ELSE rel, len)
  IN  SubSeq(arr, k + 1, len)

\* Array.prototype.slice(start) with one argument
slice(arr, start) ==
  LET len == Len(arr)
      rel == IF start.nan THEN 0 ELSE start.val
      k   == IF rel < 0 THEN Max(len + rel, 0) ELSE Min(rel, len)
  IN  SubSeq(arr, k + 1, len)

\* ------------------------------------------------------------ agents Map
agentsHas(m, id) == \E i \in DOMAIN m : m[i].id = id
agentsGet(m, id) == m[CHOOSE i \in DOMAIN m : m[i].id = id]
\* Map.set keeps the position of an existing key and appends a new one
agentsSet(m, id, v) ==
  IF agentsHas(m, id)
    THEN [i \in DOMAIN m |-> IF m[i].id = id THEN v ELSE m[i]]
    ELSE Append(m, v)
agentsDelete(m, id) == FilterBy(m, [i \in DOMAIN m |-> m[i].id # id])

\* the value null as seen through `?.id`: its id is undefined
NullAgent == [id |-> UNDEFINED]

\* findAgentByName with a plausible slip: names are compared without regard
\* to case
ToLower(c) == IF c = "A" THEN "a" ELSE c
LowerCase(str) == [i \in DOMAIN str |-> ToLower(str[i])]
findAgentByNameAnyCase(m, agentName) ==
  IF \E i \in DOMAIN m : LowerCase(m[i].name) = LowerCase(agentName)
    THEN m[CHOOSE i \in DOMAIN m :
             /\ LowerCase(m[i].name) = LowerCase(agentName)
             /\ \A j \in 1..(i - 1) :
                   LowerCase(m[j].name) # LowerCase(agentName)]
    ELSE NullAgent

\* for (const agent of agents.values()) if (agent.name === agentName) return agent
findAgentByName(m, agentName) ==
  IF \E i \in DOMAIN m : m[i].name = agentName
    THEN m[CHOOSE i \in DOMAIN m :
             /\ m[i].name = agentName
             /\ \A j \in 1..(i - 1) : m[j].name # agentName]
    ELSE NullAgent

\* String.prototype.substring(0, n)
substring(str, n) == SubSeq(str, 1, Min(Len(str), n))

\* createNotifications(message, mentions): the notifications array after
\* .map(...).filter(n => n.agent_id); the i-th mapped entry draws uuid first+i
createNotifications(m, message, mentions, first, t) ==
  LET mapped == [i \in 1..Len(mentions) |->
                   [ id         |-> uuidv4(first + i),
                     agent_id   |-> findAgentByName(m, mentions[i]).id,
                     room       |-> message.room,
                     message    |-> stringOf(message.agentName)
                                      \o <<" mentioned you: ">>
                                      \o substring(message.content, PrefixLen)
                                      \o <<"...">>,
                     type       |-> "mention",
                     created_at |-> toISOString(t) ]]
  IN  FilterBy(mapped, [i \in DOMAIN mapped |-> mapped[i].agent_id # UNDEFINED])

\* the notifications.forEach body: the events io.to(agent.socketId).emit sends
NotifyEmits(m, conn, srooms, notifications) ==
  UNION { IF agentsHas(m, n.agent_id) /\ agentsGet(m, n.agent_id).socketId # NULL
            THEN Emit(conn, srooms, agentsGet(m, n.agent_id).socketId,
                      "notification", n.id)
            ELSE {} : n \in Range(notifications) }

\* ----------------------------------------------------------------- store
EmptyDb == [ rooms         |-> << >>,
             agents        |-> << >>,
             messages      |-> << >>,
             tasks         |-> << >>,
             notifications |-> << >>,
             agent_memory  |-> << >> ]

\* the effect of one statement passed to db.run on the committed tables
ApplyStmt(d, st) ==
  CASE st.sql = "INSERT OR REPLACE INTO rooms" ->
         [d EXCEPT !.rooms =
            Append(FilterBy(@, [i \in DOMAIN @ |->
                                  @[i].id # st.row.id /\ @[i].name # st.row.name]),
                   st.row)]
    [] st.sql = "INSERT OR REPLACE INTO agents" ->
         [d EXCEPT !.agents =
            Append(FilterBy(@, [i \in DOMAIN @ |-> @[i].id # st.row.id]), st.row)]
    [] st.sql = "INSERT INTO messages" ->
         [d EXCEPT !.messages = Append(@, st.row)]
    [] st.sql = "UPDATE agents SET last_active" ->
         [d EXCEPT !.agents =
            [i \in DOMAIN @ |->
               IF @[i].id = st.row.id
                 THEN [@[i] EXCEPT !.last_active = st.row.last_active]
                 ELSE @[i]]]
    [] st.sql = "INSERT INTO notifications" ->
         [d EXCEPT !.notifications = Append(@, st.row)]
    [] st.sql = "INSERT INTO agent_memory" ->
         [d EXCEPT !.agent_memory = Append(@, st.row)]
    [] st.sql = "UPDATE tasks SET" ->
         [d EXCEPT !.tasks =
            [i \in DOMAIN @ |->
               IF @[i].id = st.row.id
                 THEN [@[i] EXCEPT !.status = st.row.status,
                                   !.assignee = st.row.assignee,
                                   !.priority = st.row.priority,
                                   !.updated_at = st.row.updated_at]
                 ELSE @[i]]]

\* the sequence s without its i-th element
RemoveAt(s, i) == SubSeq(s, 1, i - 1) \o SubSeq(s, i + 1, Len(s))

\* ------------------------------------------------------------- adapter
\* the adapter's globals when its process starts; `awaiting` is the HTTP
\* request whose answer one of its tool handlers is waiting for
InitAdapter ==
  [ currentAgentId |-> NULL, currentRoom |-> NULL, socket |-> NULL,
    agentName |-> <<"Agent">>, notifications |-> << >>,
    messageHistory |-> << >>, awaiting |-> "none" ]

\* ------------------------------------------------------------------ Init
\* the response slot when the last step answered no request
NoResponse == [op |-> "none"]

Init ==
  /\ rooms = << >>
  /\ agents = << >>
  /\ messages = << >>
  /\ tasks = << >>
  /\ fileWatcher = {}
  /\ db = EmptyDb
  /\ dbQueue = << >>
  /\ connected = {}
  /\ sockRooms = [s \in SocketIds |-> {}]
  /\ nextSock = 0
  /\ sockAgents = [s \in SocketIds |-> {}]
  /\ now = 0
  /\ nextId = 0
  /\ res = NoResponse
  /\ lastNotifs = << >>
  /\ delivered = {}
  /\ adapter = InitAdapter

\* time passes, up to the horizon of the specification
Tick(horizon) ==
  /\ now < horizon
  /\ now' = now + 1
  /\ res' = NoResponse /\ lastNotifs' = << >> /\ delivered' = {}
  /\ UNCHANGED << adapter, rooms, agents, messages, tasks, fileWatcher, db, dbQueue,
                  connected, sockRooms, nextSock, sockAgents, nextId >>

\* sqlite executes one of the statements handed to db.run
DbCommit(i) ==
  /\ i \in DOMAIN dbQueue
  /\ db' = ApplyStmt(db, dbQueue[i])
  /\ dbQueue' = RemoveAt(dbQueue, i)
  /\ res' = NoResponse /\ lastNotifs' = << >> /\ delivered' = {}
  /\ UNCHANGED << adapter, rooms, agents, messages, tasks, fileWatcher, connected,
                  sockRooms, nextSock, sockAgents, now, nextId >>

\* sqlite fails to execute one of the statements handed to db.run.  db.run is
\* called without a callback, so the error becomes an 'error' event on the
\* statement, which has no listener: either the event is dropped and the hub
\* runs on, or it ends the process, which then starts again and loads its
\* rooms (crashes = TRUE).  The answer to the request was sent before.
DbFail(i, crashes) ==
  /\ i \in DOMAIN dbQueue
  /\ res' = [ op |-> "storeFailure", stmt |-> dbQueue[i],
              crashed |-> crashes ]
  /\ lastNotifs' = << >> /\ delivered' = {}
  /\ IF crashes
       THEN /\ rooms' = [ name \in { db.rooms[k].name : k \in DOMAIN db.rooms } |->
                          [ name |-> name, agents |-> {},
                            createdAt |->
                              db.rooms[CHOOSE k \in DOMAIN db.rooms :
                                         db.rooms[k].name = name].created_at,
                            isActive |-> TRUE ] ]
            /\ messages' = [ name \in { db.rooms[k].name :
                                          k \in DOMAIN db.rooms } |-> << >> ]
            /\ agents' = << >>
            /\ tasks' = << >>
            /\ fileWatcher' = {}
            /\ dbQueue' = << >>
            /\ connected' = {}
            /\ sockRooms' = [s \in SocketIds |-> {}]
            /\ sockAgents' = [s \in SocketIds |-> {}]
            /\ UNCHANGED << adapter, db, nextSock, now, nextId >>
       ELSE /\ dbQueue' = RemoveAt(dbQueue, i)
            /\ UNCHANGED << adapter, rooms, agents, messages, tasks, fileWatcher, db,
                            connected, sockRooms, nextSock, sockAgents, now,
                            nextId >>

\* ------------------------------------------------------- room management
\* getRoom(roomName) when the room is new: the room record it creates
NewRoom(roomName, t) ==
  [ name |-> roomName, agents |-> {}, createdAt |-> toISOString(t),
    isActive |-> TRUE ]

\* getRoom: the statement that persists a new room
RoomStmt(room, id) ==
  [ sql |-> "INSERT OR REPLACE INTO rooms",
    row |-> [ id |-> id, name |-> room.name, created_at |-> room.createdAt,
              is_active |-> 1 ] ]

\* the agent record a join builds
NewAgent(agentId, agentName, roomName, t) ==
  [ id |-> agentId, name |-> agentName, room |-> roomName,
    joinedAt |-> toISOString(t), lastActive |-> toISOString(t),
    socketId |-> NULL, status |-> "active" ]

\* join: the statement that persists the agent
AgentStmt(agent) ==
  [ sql |-> "INSERT OR REPLACE INTO agents",
    row |-> [ id |-> agent.id, name |-> agent.name, room |-> agent.room,
              joined_at |-> agent.joinedAt, last_active |-> agent.lastActive,
              status |-> agent.status ] ]

\* the system message a join appends
JoinMessage(id, agentName, roomName, t) ==
  [ id |-> id, type |-> "system", agentId |-> NULL,
    agentName |-> <<"System">>,
    content |-> stringOf(agentName) \o <<" has joined the room">>,
    timestamp |-> toISOString(t), room |-> roomName, mentions |-> << >> ]

\* the system message a leave appends; it has no agentId, agentName, mentions
LeaveMessage(id, agent, t) ==
  [ id |-> id, type |-> "system", agentId |-> UNDEFINED,
    agentName |-> UNDEFINED,
    content |-> stringOf(agent.name) \o <<" has left the room">>,
    timestamp |-> toISOString(t), room |-> agent.room,
    mentions |-> UNDEFINED ]

\* SendMessage with a plausible slip: the parsed mentions are collapsed to
\* the distinct names before the message is stored
SendMessageDistinct(id, agent, content, t) ==
  LET all == parseMentions(content) IN
  [ id |-> id, type |-> "message", agentId |-> agent.id,
    agentName |-> agent.name, content |-> content,
    mentions |-> FilterBy(all, [i \in DOMAIN all |->
                                  \A j \in 1..(i - 1) : all[j] # all[i]]),
    timestamp |-> toISOString(t), room |-> agent.room ]

\* the message a send builds
SendMessage(id, agent, content, t) ==
  [ id |-> id, type |-> "message", agentId |-> agent.id,
    agentName |-> agent.name, content |-> content,
    mentions |-> parseMentions(content), timestamp |-> toISOString(t),
    room |-> agent.room ]

\* join, send: the statement that persists a message
MessageStmt(message) ==
  [ sql |-> "INSERT INTO messages",
    row |-> [ id |-> message.id, room |-> message.room,
              agent_id |-> message.agentId, agent_name |-> message.agentName,
              content |-> message.content, type |-> message.type,
              mentions |-> message.mentions,
              timestamp |-> message.timestamp ] ]

\* send: the statement that persists the sender's lastActive
LastActiveStmt(agentId, lastActive) ==
  [ sql |-> "UPDATE agents SET last_active",
    row |-> [ id |-> agentId, last_active |-> lastActive ] ]

\* createNotifications: the statement that persists one notification
NotificationStmt(n) ==
  [ sql |-> "INSERT INTO notifications",
    row |-> [ id |-> n.id, agent_id |-> n.agent_id, room |-> n.room,
              message |-> n.message, type |-> n.type, is_read |-> 0,
              created_at |-> n.created_at ] ]

\* POST /api/join/:room
Join(roomName, agentId, agentName) ==
  LET isNew   == roomName \notin DOMAIN rooms
      \* getRoom
      rooms1  == IF isNew THEN MapSet(rooms, roomName, NewRoom(roomName, now))
                 ELSE rooms
      msgs1   == IF isNew THEN MapSet(messages, roomName, << >>) ELSE messages
      roomSql == IF isNew
                   THEN << RoomStmt(rooms1[roomName], uuidv4(nextId + 1)) >>
                   ELSE << >>
      id1     == IF isNew THEN nextId + 1 ELSE nextId
      \* the handler proper
      agent   == NewAgent(agentId, agentName, roomName, now)
      joinMessage == JoinMessage(uuidv4(id1 + 1), agentName, roomName, now)
  IN
  /\ id1 + 1 <= MaxIds
  /\ rooms' = [rooms1 EXCEPT ![roomName].agents = @ \cup {agentId}]
  /\ fileWatcher' = IF isNew THEN fileWatcher \cup {roomName} ELSE fileWatcher
  /\ agents' = agentsSet(agents, agentId, agent)
  /\ messages' = [msgs1 EXCEPT ![roomName] = Append(@, joinMessage)]
  /\ dbQueue' = dbQueue \o roomSql
                  \o << AgentStmt(agent), MessageStmt(joinMessage) >>
  /\ nextId' = id1 + 1
  /\ delivered' = Emit(connected, sockRooms, roomName, "message", joinMessage.id)
  /\ res' = [ op |-> "join", status |-> 200, success |-> TRUE,
              roomName |-> roomName, agentId |-> agentId,
              agentName |-> agentName ]
  /\ lastNotifs' = << >>
  /\ UNCHANGED << adapter, tasks, db, connected, sockRooms, nextSock, sockAgents, now >>

\* POST /api/leave/:agentId
Leave(agentId) ==
  IF ~agentsHas(agents, agentId)
  THEN /\ res' = [ op |-> "leave", status |-> 404, success |-> FALSE,
                   agentId |-> agentId ]
       /\ lastNotifs' = << >> /\ delivered' = {}
       /\ UNCHANGED << adapter, rooms, agents, messages, tasks, fileWatcher, db, dbQueue,
                       connected, sockRooms, nextSock, sockAgents, now, nextId >>
  ELSE
  LET agent == agentsGet(agents, agentId)
      leaveMessage == LeaveMessage(uuidv4(nextId + 1), agent, now)
  IN
  /\ nextId + 1 <= MaxIds
  /\ rooms' = [rooms EXCEPT ![agent.room].agents = @ \ {agentId}]
  /\ messages' = [messages EXCEPT ![agent.room] = Append(@, leaveMessage)]
  /\ delivered' = Emit(connected, sockRooms, agent.room, "message",
                       leaveMessage.id)
  /\ agents' = agentsDelete(agents, agentId)
  /\ sockAgents' = [s \in SocketIds |-> sockAgents[s] \ {agentId}]
  /\ nextId' = nextId + 1
  /\ res' = [ op |-> "leave", status |-> 200, success |-> TRUE,
              agentId |-> agentId, room |-> agent.room,
              socketId |-> agent.socketId ]
  /\ lastNotifs' = << >>
  /\ UNCHANGED << adapter, tasks, fileWatcher, db, dbQueue, connected, sockRooms, nextSock,
                  now >>

\* POST /api/send once the sender is found in the registry
SendKnown(agentId, content) ==
  LET agent    == agentsGet(agents, agentId)
      message  == SendMessage(uuidv4(nextId + 1), agent, content, now)
      mentions == message.mentions
      agents1  == agentsSet(agents, agentId,
                            [agent EXCEPT !.lastActive = toISOString(now)])
      notifications ==
        IF Len(mentions) > 0
          THEN createNotifications(agents1, message, mentions, nextId + 1, now)
          ELSE << >>
  IN
  /\ nextId + 1 + Len(mentions) <= MaxIds
  /\ messages' = [messages EXCEPT ![agent.room] = Append(@, message)]
  /\ agents' = agents1
  /\ dbQueue' = dbQueue
       \o << MessageStmt(message),
             LastActiveStmt(agentId, toISOString(now)) >>
       \o [i \in DOMAIN notifications |-> NotificationStmt(notifications[i])]
  /\ nextId' = nextId + 1 + Len(mentions)
  /\ lastNotifs' = notifications
  /\ delivered' =
       NotifyEmits(agents1, connected, sockRooms, notifications)
         \cup Emit(connected, sockRooms, agent.room, "message", message.id)
  /\ res' = [ op |-> "send", status |-> 200, success |-> TRUE,
              agentId |-> agentId, content |-> content,
              messageId |-> message.id, mentions |-> mentions ]
  /\ UNCHANGED << adapter, rooms, tasks, fileWatcher, db, connected, sockRooms, nextSock,
                  sockAgents, now >>

\* the answer of send to an agentId the registry does not hold
SendNotFound(agentId) ==
  [ op |-> "send", status |-> 404, success |-> FALSE, agentId |-> agentId ]

\* Send with a plausible slip: the sender's last_active is written to the
\* store before the registry is consulted
SendTouchFirst(agentId, content) ==
  IF ~agentsHas(agents, agentId)
  THEN /\ res' = SendNotFound(agentId)
       /\ dbQueue' = Append(dbQueue,
                            LastActiveStmt(agentId, toISOString(now)))
       /\ lastNotifs' = << >> /\ delivered' = {}
       /\ UNCHANGED << adapter, rooms, agents, messages, tasks, fileWatcher, db,
                       connected, sockRooms, nextSock, sockAgents, now, nextId >>
  ELSE SendKnown(agentId, content)

\* POST /api/send
Send(agentId, content) ==
  IF ~agentsHas(agents, agentId)
  THEN /\ res' = SendNotFound(agentId)
       /\ lastNotifs' = << >> /\ delivered' = {}
       /\ UNCHANGED << adapter, rooms, agents, messages, tasks, fileWatcher, db, dbQueue,
                       connected, sockRooms, nextSock, sockAgents, now, nextId >>
  ELSE SendKnown(agentId, content)

\* ---------------------------------------------------------- push sessions
\* io.on('connection'): socket.io gives the socket a fresh id and puts it in
\* the room named by that id
Connect ==
  /\ nextSock < MaxSockets
  /\ LET s == <<"s", nextSock + 1>> IN
       /\ connected' = connected \cup {s}
       /\ sockRooms' = [sockRooms EXCEPT ![s] = {s}]
  /\ nextSock' = nextSock + 1
  /\ res' = NoResponse /\ lastNotifs' = << >> /\ delivered' = {}
  /\ UNCHANGED << adapter, rooms, agents, messages, tasks, fileWatcher, db, dbQueue, sockAgents,
                  now, nextId >>

\* socket.on('register', ({ agentId, room }) => ...)
Register(s, agentId, room) ==
  /\ s \in connected
  /\ IF agentsHas(agents, agentId)
       THEN /\ agents' = agentsSet(agents, agentId,
                           [agentsGet(agents, agentId) EXCEPT !.socketId = s])
            /\ sockRooms' = [sockRooms EXCEPT ![s] = @ \cup {room}]
            /\ sockAgents' = [sockAgents EXCEPT ![s] = @ \cup {agentId}]
       ELSE UNCHANGED << adapter, agents, sockRooms, sockAgents >>
  /\ res' = NoResponse /\ lastNotifs' = << >> /\ delivered' = {}
  /\ UNCHANGED << adapter, rooms, messages, tasks, fileWatcher, db, dbQueue, connected,
                  nextSock, now, nextId >>

\* Disconnect with a plausible slip: the handler treats the end of the
\* session as a leave of the agents bound to it
DisconnectAndLeave(s) ==
  /\ s \in connected
  /\ connected' = connected \ {s}
  /\ sockRooms' = [sockRooms EXCEPT ![s] = {}]
  /\ rooms' = [r \in DOMAIN rooms |->
                [rooms[r] EXCEPT !.agents =
                   @ \ { agents[i].id : i \in { k \in DOMAIN agents :
                                                  agents[k].socketId = s } }]]
  /\ agents' = FilterBy(agents, [i \in DOMAIN agents |->
                                   agents[i].socketId # s])
  /\ res' = NoResponse /\ lastNotifs' = << >> /\ delivered' = {}
  /\ UNCHANGED << adapter, messages, tasks, fileWatcher, db, dbQueue, nextSock,
                  sockAgents, now, nextId >>

\* socket.on('disconnect'): the handler only logs; socket.io itself removes
\* the socket from every room
Disconnect(s) ==
  /\ s \in connected
  /\ connected' = connected \ {s}
  /\ sockRooms' = [sockRooms EXCEPT ![s] = {}]
  /\ res' = NoResponse /\ lastNotifs' = << >> /\ delivered' = {}
  /\ UNCHANGED << adapter, rooms, agents, messages, tasks, fileWatcher, db, dbQueue, nextSock,
                  sockAgents, now, nextId >>

\* what a client may put in the `message` frame it sends over its socket:
\* an id of its own choosing and a room, or no room
ClientIds == { <<"c", 1>> }
DataRooms == RoomNames \cup { UNDEFINED }

\* socket.on('message', (data) => ...): the frame is sent on to the socket.io
\* room it names
SocketMessage(s, data) ==
  /\ s \in connected
  /\ delivered' = IF Truthy(data.room)
                     THEN Emit(connected, sockRooms, data.room, "message",
                               data.id)
                     ELSE {}
  /\ res' = [ op |-> "socketMessage", sock |-> s, data |-> data ]
  /\ lastNotifs' = << >>
  /\ UNCHANGED << adapter, rooms, agents, messages, tasks, fileWatcher, db, dbQueue,
                  connected, sockRooms, nextSock, sockAgents, now, nextId >>

\* ---------------------------------------------------------------- history
\* values a client may pass as ?since= and ?limit=
Sinces == { UNDEFINED, <<"x">> } \cup { toISOString(t) : t \in 0..MaxTime }
LimitStrings == { <<"0">>, <<"1">>, <<"2">>, <<"-", "1">>, <<"x">> }
Limits == { [kind |-> "undefined"] }
            \cup { [kind |-> "string", chars |-> c] : c \in LimitStrings }

\* const { since, limit = 100 } = req.query
limitOrDefault(l) ==
  IF l.kind = "undefined" THEN [kind |-> "number", val |-> DefaultLimit] ELSE l

\* the body of GET /api/messages/:room: the messages it answers with
roomMessagesSince(msgs, room, since, limit) ==
  LET roomMessages == IF room \in DOMAIN msgs THEN msgs[room] ELSE << >>
      filtered ==
        IF Truthy(since)
          THEN FilterBy(roomMessages,
                 [i \in DOMAIN roomMessages |->
                    NumGreater(getTime(roomMessages[i].timestamp), getTime(since))])
          ELSE roomMessages
  IN  slice(filtered, Negate(parseInt(limitOrDefault(limit))))

\* GET /api/messages/:room
History(room, since, limit) ==
  /\ res' = [ op |-> "history", status |-> 200, room |-> room,
              since |-> since, limit |-> limit,
              messages |-> roomMessagesSince(messages, room, since, limit) ]
  /\ lastNotifs' = << >> /\ delivered' = {}
  /\ UNCHANGED << adapter, rooms, agents, messages, tasks, fileWatcher, db, dbQueue,
                  connected, sockRooms, nextSock, sockAgents, now, nextId >>

\* ----------------------------------------------------------------- memory
Keys        == { <<"k", 1>>, <<"k", 2>> }
OneKey      == { <<"k", 1>> }
MemoryTypes == { UNDEFINED, <<"note">>, <<"fact">> }
ExpiresIns  == { [kind |-> "undefined"] }
                 \cup { [kind |-> "number", val |-> n] : n \in {0, 1} }

\* const expiresAt = expiresIn ? new Date(Date.now() + expiresIn * 1000)... : null
expiresAtOf(expiresIn, t) ==
  IF expiresIn.kind = "number" /\ expiresIn.val # 0
    THEN toISOString(t + expiresIn.val)
    ELSE NULL

\* POST /api/memory/:agentId
StoreMemory(agentId, key, type, expiresIn) ==
  IF ~agentsHas(agents, agentId)
  THEN /\ res' = [ op |-> "storeMemory", status |-> 404, success |-> FALSE,
                   agentId |-> agentId, expiresIn |-> expiresIn ]
       /\ lastNotifs' = << >> /\ delivered' = {}
       /\ UNCHANGED << adapter, rooms, agents, messages, tasks, fileWatcher, db, dbQueue,
                       connected, sockRooms, nextSock, sockAgents, now, nextId >>
  ELSE
  LET agent  == agentsGet(agents, agentId)
      memory == [ id |-> uuidv4(nextId + 1), agent_id |-> agentId,
                  room |-> agent.room, key |-> key,
                  type |-> IF type = UNDEFINED THEN <<"note">> ELSE type,
                  created_at |-> toISOString(now),
                  expires_at |-> expiresAtOf(expiresIn, now) ]
  IN
  /\ nextId + 1 <= MaxIds
  /\ nextId' = nextId + 1
  /\ dbQueue' = Append(dbQueue,
                       [sql |-> "INSERT INTO agent_memory", row |-> memory])
  /\ res' = [ op |-> "storeMemory", status |-> 200, success |-> TRUE,
              agentId |-> agentId, expiresIn |-> expiresIn,
              memoryId |-> memory.id, memory |-> memory ]
  /\ lastNotifs' = << >> /\ delivered' = {}
  /\ UNCHANGED << adapter, rooms, agents, messages, tasks, fileWatcher, db, connected,
                  sockRooms, nextSock, sockAgents, now >>

\* the WHERE clause of the agent_memory query
memoryRowSelected(row, agentId, key, type, t) ==
  /\ row.agent_id = agentId
  /\ \/ row.expires_at = NULL
     \/ TextGreater(row.expires_at, datetimeNow(t))
  /\ Truthy(key) => row.key = key
  /\ Truthy(type) => row.type = type

\* ORDER BY created_at DESC: no row comes before a row with a later
\* created_at; sqlite leaves the order of equal keys open
OrderedDesc(out) ==
  \A i, j \in DOMAIN out :
     i < j => ~TextGreater(out[j].created_at, out[i].created_at)

\* the orders in which the selected rows may be returned
SelectedOrders(rows) ==
  { out \in [1..Cardinality(rows) -> rows] :
      Range(out) = rows /\ OrderedDesc(out) }

\* GET /api/memory/:agentId
GetMemory(agentId, key, type) ==
  /\ \E out \in SelectedOrders(
         { row \in Range(db.agent_memory) :
             memoryRowSelected(row, agentId, key, type, now) }) :
       res' = [ op |-> "getMemory", status |-> 200, success |-> TRUE,
                agentId |-> agentId, key |-> key, type |-> type,
                memories |-> out ]
  /\ lastNotifs' = << >> /\ delivered' = {}
  /\ UNCHANGED << adapter, rooms, agents, messages, tasks, fileWatcher, db, dbQueue,
                  connected, sockRooms, nextSock, sockAgents, now, nextId >>

\* ---------------------------------------------------------- notifications
\* this.changes of UPDATE notifications SET is_read = 1 WHERE id = ?: sqlite
\* counts every row the WHERE clause selects, whatever its old value
changesOfMarkRead(table, notificationId) ==
  Cardinality({ i \in DOMAIN table : table[i].id = notificationId })

\* POST /api/notifications/:notificationId/read, at the moment sqlite runs
\* the UPDATE; `before` records is_read of the row as it was (NULL: no row)
MarkRead(notificationId) ==
  /\ db' = [db EXCEPT !.notifications =
              [i \in DOMAIN @ |->
                 IF @[i].id = notificationId THEN [@[i] EXCEPT !.is_read = 1]
                 ELSE @[i]]]
  /\ res' = [ op |-> "markRead", status |-> 200, success |-> TRUE,
              id |-> notificationId,
              before |-> IF \E i \in DOMAIN db.notifications :
                              db.notifications[i].id = notificationId
                           THEN << "is_read",
                                   db.notifications[
                                     CHOOSE i \in DOMAIN db.notifications :
                                       db.notifications[i].id = notificationId
                                   ].is_read >>
                           ELSE NULL,
              updated |-> changesOfMarkRead(db.notifications, notificationId) > 0 ]
  /\ lastNotifs' = << >> /\ delivered' = {}
  /\ UNCHANGED << adapter, rooms, agents, messages, tasks, fileWatcher, dbQueue, connected,
                  sockRooms, nextSock, sockAgents, now, nextId >>

\* ------------------------------------------------------- rooms and agents
\* Array.from(room.agents).map(id => agents.get(id)).filter(Boolean)
roomAgents(room, m) ==
  { agentsGet(m, id) : id \in { x \in room.agents : agentsHas(m, x) } }

\* roomList with a plausible slip: agentCount is the number of agent records
\* the entry lists
roomListByRecords(rs, m) ==
  [ name \in DOMAIN rs |->
      [ name       |-> name,
        agentCount |-> Cardinality(roomAgents(rs[name], m)),
        agents     |-> roomAgents(rs[name], m),
        createdAt  |-> rs[name].createdAt ] ]

\* the roomList of GET /api/rooms, as its entries by room name
roomList(rs, m) ==
  [ name \in DOMAIN rs |->
      [ name       |-> name,
        agentCount |-> Cardinality(rs[name].agents),
        agents     |-> roomAgents(rs[name], m),
        createdAt  |-> rs[name].createdAt ] ]

\* GET /api/rooms
ListRooms ==
  /\ res' = [ op |-> "listRooms", status |-> 200,
              rooms |-> roomList(rooms, agents) ]
  /\ lastNotifs' = << >> /\ delivered' = {}
  /\ UNCHANGED << adapter, rooms, agents, messages, tasks, fileWatcher, db, dbQueue,
                  connected, sockRooms, nextSock, sockAgents, now, nextId >>

\* GET /api/agents/:room
ListAgents(roomName) ==
  /\ res' = IF roomName \in DOMAIN rooms
              THEN [ op |-> "listAgents", status |-> 200, room |-> roomName,
                     agents |-> roomAgents(rooms[roomName], agents) ]
              ELSE [ op |-> "listAgents", status |-> 404, room |-> roomName,
                     success |-> FALSE ]
  /\ lastNotifs' = << >> /\ delivered' = {}
  /\ UNCHANGED << adapter, rooms, agents, messages, tasks, fileWatcher, db, dbQueue,
                  connected, sockRooms, nextSock, sockAgents, now, nextId >>

\* --------------------------------------------------------------- restart
\* SELECT * FROM rooms WHERE is_active = 1
activeRoomRows(d) ==
  FilterBy(d.rooms, [i \in DOMAIN d.rooms |-> d.rooms[i].is_active = 1])

\* the room a row is loaded as
LoadedRoom(row) ==
  [ name |-> row.name, agents |-> {}, createdAt |-> row.created_at,
    isActive |-> (row.is_active = 1) ]

\* hydrateRooms with a plausible slip: the Map is keyed by the row's id
hydrateRoomsById(rows) ==
  [ key \in { rows[i].id : i \in DOMAIN rows } |->
      LoadedRoom(rows[CHOOSE i \in DOMAIN rows : rows[i].id = key]) ]

\* rows.forEach(row => rooms.set(row.name, {...})) on the empty Map
hydrateRooms(rows) ==
  [ name \in { rows[i].name : i \in DOMAIN rows } |->
      LoadedRoom(rows[CHOOSE i \in DOMAIN rows : rows[i].name = name]) ]

\* rows.forEach(row => messages.set(row.name, [])) on the empty Map
hydrateMessages(rows) ==
  [ name \in { rows[i].name : i \in DOMAIN rows } |-> << >> ]

\* The process stops and starts again: the Maps are created empty, the
\* statements sqlite had not executed are gone with the old process, every
\* socket is closed, and loadDataFromDatabase fills rooms and messages.
Restart ==
  /\ rooms' = hydrateRooms(activeRoomRows(db))
  /\ messages' = hydrateMessages(activeRoomRows(db))
  /\ agents' = << >>
  /\ tasks' = << >>
  /\ fileWatcher' = {}
  /\ dbQueue' = << >>
  /\ connected' = {}
  /\ sockRooms' = [s \in SocketIds |-> {}]
  /\ sockAgents' = [s \in SocketIds |-> {}]
  /\ res' = [ op |-> "restart" ]
  /\ lastNotifs' = << >> /\ delivered' = {}
  /\ UNCHANGED << adapter, db, nextSock, now, nextId >>

\* ----------------------------------------------------------------- stats
\* the stats object of GET /api/stats, its rooms array as entries by name
stats(rs, m, tks, msgs) ==
  [ totalRooms  |-> Cardinality(DOMAIN rs),
    totalAgents |-> Len(m),
    totalTasks  |-> Len(tks),
    rooms |-> [ name \in DOMAIN rs |->
                  [ name         |-> name,
                    agentCount   |-> Cardinality(rs[name].agents),
                    messageCount |-> IF name \in DOMAIN msgs
                                       THEN Len(msgs[name]) ELSE 0,
                    isActive     |-> rs[name].isActive ] ] ]

\* GET /api/stats
Stats ==
  /\ res' = [ op |-> "stats", status |-> 200,
              stats |-> stats(rooms, agents, tasks, messages) ]
  /\ lastNotifs' = << >> /\ delivered' = {}
  /\ UNCHANGED << adapter, rooms, agents, messages, tasks, fileWatcher, db, dbQueue,
                  connected, sockRooms, nextSock, sockAgents, now, nextId >>

\* ------------------------------------------------------------- broadcast
\* values a client may pass as `from`
Froms == { UNDEFINED, <<"b">> }

\* const { content, from = 'Orchestrator' } = req.body
fromOrDefault(from) == IF from = UNDEFINED THEN <<"Orchestrator">> ELSE from

\* the message a broadcast builds
BroadcastMessage(id, roomName, content, from, t) ==
  [ id |-> id, type |-> "broadcast",
    content |-> <<"[">> \o fromOrDefault(from) \o <<"]", " ">> \o content,
    timestamp |-> toISOString(t), room |-> roomName,
    from |-> fromOrDefault(from) ]

\* pushIfPresent with a plausible slip: unshift in place of push
unshiftIfPresent(msgs, roomName, message) ==
  IF roomName \in DOMAIN msgs
    THEN [msgs EXCEPT ![roomName] = << message >> \o @]
    ELSE msgs

\* messages.get(roomName)?.push(message)
pushIfPresent(msgs, roomName, message) ==
  IF roomName \in DOMAIN msgs
    THEN [msgs EXCEPT ![roomName] = Append(@, message)]
    ELSE msgs

\* POST /api/broadcast/:room
Broadcast(roomName, content, from) ==
  LET message == BroadcastMessage(uuidv4(nextId + 1), roomName, content,
                                  from, now)
  IN
  /\ nextId + 1 <= MaxIds
  /\ nextId' = nextId + 1
  /\ messages' = pushIfPresent(messages, roomName, message)
  /\ delivered' = Emit(connected, sockRooms, roomName, "message", message.id)
  /\ res' = [ op |-> "broadcast", status |-> 200, success |-> TRUE,
              room |-> roomName, content |-> content, from |-> from,
              messageId |-> message.id ]
  /\ lastNotifs' = << >>
  /\ UNCHANGED << adapter, rooms, agents, tasks, fileWatcher, db, dbQueue, connected,
                  sockRooms, nextSock, sockAgents, now >>

\* ---------------------------------------------------------- file watcher
\* what chokidar reports: the event and the path relative to SHARED_DIR
WatchEvents == { "change", "add", "unlink" }
Paths       == { <<"f">> }

\* the wording and the metadata action of each watcher callback
fileChangeVerb(ev) ==
  CASE ev = "change" -> <<"File modified: ">>
    [] ev = "add"    -> <<"File created: ">>
    [] ev = "unlink" -> <<"File deleted: ">>

fileChangeAction(ev) == IF ev = "unlink" THEN "delete" ELSE ev

\* the message a watcher callback builds
FileChangeMessage(id, roomName, ev, filePath, t) ==
  [ id |-> id, type |-> "file_change",
    content |-> fileChangeVerb(ev) \o filePath,
    timestamp |-> toISOString(t), room |-> roomName,
    metadata |-> [ filePath |-> filePath, action |-> fileChangeAction(ev) ] ]

\* watcher.on('change' | 'add' | 'unlink') of the watcher set up for a room
FileChange(roomName, ev, filePath) ==
  LET message == FileChangeMessage(uuidv4(nextId + 1), roomName, ev,
                                   filePath, now)
  IN
  /\ roomName \in fileWatcher
  /\ nextId + 1 <= MaxIds
  /\ nextId' = nextId + 1
  /\ messages' = pushIfPresent(messages, roomName, message)
  /\ delivered' = Emit(connected, sockRooms, roomName, "message", message.id)
  /\ res' = [ op |-> "fileChange", room |-> roomName,
              messageId |-> message.id ]
  /\ lastNotifs' = << >>
  /\ UNCHANGED << adapter, rooms, agents, tasks, fileWatcher, db, dbQueue, connected,
                  sockRooms, nextSock, sockAgents, now >>

\* the orders in which the watchers of a set of rooms may run their callbacks
WatcherOrders(watched) ==
  { f \in [1..Cardinality(watched) -> watched] :
      \A i, j \in DOMAIN f : i # j => f[i] # f[j] }

\* the logs after the callbacks of the first n watchers of an order have run
RECURSIVE pushFileChanges(_, _, _, _, _, _, _)
pushFileChanges(msgs, order, n, firstId, ev, filePath, t) ==
  IF n = 0 THEN msgs
  ELSE pushIfPresent(
         pushFileChanges(msgs, order, n - 1, firstId, ev, filePath, t),
         order[n],
         FileChangeMessage(uuidv4(firstId + n), order[n], ev, filePath, t))

\* One change under SHARED_DIR: every room's watcher observes the same tree,
\* so the callback of each watcher in the fileWatcher Map runs once, in some
\* order.
FsChange(ev, filePath, order) ==
  /\ order \in WatcherOrders(fileWatcher)
  /\ nextId + Len(order) <= MaxIds
  /\ nextId' = nextId + Len(order)
  /\ messages' = pushFileChanges(messages, order, Len(order), nextId, ev,
                                 filePath, now)
  /\ delivered' = UNION { Emit(connected, sockRooms, order[i], "message",
                               uuidv4(nextId + i)) : i \in DOMAIN order }
  /\ res' = [ op |-> "fsChange", event |-> ev, filePath |-> filePath ]
  /\ lastNotifs' = << >>
  /\ UNCHANGED << adapter, rooms, agents, tasks, fileWatcher, db, dbQueue, connected,
                  sockRooms, nextSock, sockAgents, now >>

\* ----------------------------------------------------------------- tasks
\* values a client may pass in the body of a task request; << >> is the
\* empty string
Titles       == { <<"t">> }
Assignees    == { UNDEFINED, << >>, <<"b">> }
Priorities   == { UNDEFINED, <<"high">> }
TaskStatuses == { UNDEFINED, <<"done">> }

\* the tasks Map
tasksHas(m, id) == \E i \in DOMAIN m : m[i].id = id
tasksGet(m, id) == m[CHOOSE i \in DOMAIN m : m[i].id = id]
tasksSet(m, id, v) ==
  IF tasksHas(m, id)
    THEN [i \in DOMAIN m |-> IF m[i].id = id THEN v ELSE m[i]]
    ELSE Append(m, v)

\* io.to(target).emit('task', { type, task })
EmitTask(conn, srooms, target, type, id) ==
  { [sock |-> s, event |-> "task", type |-> type, id |-> id] :
      s \in { x \in conn : target \in srooms[x] } }

\* NewTask with a plausible slip: the task starts in another status
NewTaskInProgress(id, roomName, title, assignee, priority, t) ==
  [ id |-> id, room |-> roomName, title |-> title,
    description |-> UNDEFINED, assignee |-> assignee, creator |-> UNDEFINED,
    priority |-> IF priority = UNDEFINED THEN <<"medium">> ELSE priority,
    status |-> <<"in_progress">>,
    createdAt |-> toISOString(t), updatedAt |-> toISOString(t) ]

\* the task a createTask request builds; the requests of the model carry no
\* description and no creator
NewTask(id, roomName, title, assignee, priority, t) ==
  [ id |-> id, room |-> roomName, title |-> title,
    description |-> UNDEFINED, assignee |-> assignee, creator |-> UNDEFINED,
    priority |-> IF priority = UNDEFINED THEN <<"medium">> ELSE priority,
    status |-> <<"todo">>,
    createdAt |-> toISOString(t), updatedAt |-> toISOString(t) ]

\* POST /api/tasks; MaxTasks bounds the tasks of one run
CreateTask(roomName, title, assignee, priority) ==
  LET task == NewTask(uuidv4(nextId + 1), roomName, title, assignee,
                      priority, now)
  IN
  /\ nextId + 1 <= MaxIds /\ Len(tasks) < MaxTasks
  /\ nextId' = nextId + 1
  /\ tasks' = tasksSet(tasks, task.id, task)
  /\ delivered' = EmitTask(connected, sockRooms, roomName, "created", task.id)
  /\ res' = [ op |-> "createTask", status |-> 200, success |-> TRUE,
              room |-> roomName, task |-> task ]
  /\ lastNotifs' = << >>
  /\ UNCHANGED << adapter, rooms, agents, messages, fileWatcher, db, dbQueue,
                  connected, sockRooms, nextSock, sockAgents, now >>

\* Array.from(tasks.values()).filter(t => t.room === room)
roomTasks(m, room) == FilterBy(m, [i \in DOMAIN m |-> m[i].room = room])

\* GET /api/tasks/:room
ListTasks(room) ==
  /\ res' = [ op |-> "listTasks", status |-> 200, room |-> room,
              tasks |-> roomTasks(tasks, room) ]
  /\ lastNotifs' = << >> /\ delivered' = {}
  /\ UNCHANGED << adapter, rooms, agents, messages, tasks, fileWatcher, db, dbQueue,
                  connected, sockRooms, nextSock, sockAgents, now, nextId >>

\* if (status) task.status = status; ... ; task.updatedAt = ...
mergeTask(task, status, assignee, priority, t) ==
  [ task EXCEPT !.status    = IF Truthy(status) THEN status ELSE @,
                !.assignee  = IF Truthy(assignee) THEN assignee ELSE @,
                !.priority  = IF Truthy(priority) THEN priority ELSE @,
                !.updatedAt = toISOString(t) ]

\* updateTask: the statement that persists the update
TaskUpdateStmt(task) ==
  [ sql |-> "UPDATE tasks SET",
    row |-> [ id |-> task.id, status |-> task.status,
              assignee |-> task.assignee, priority |-> task.priority,
              updated_at |-> task.updatedAt ] ]

\* POST /api/tasks/:taskId/update; MaxPending bounds the statements waiting
\* for sqlite
UpdateTask(taskId, status, assignee, priority) ==
  LET body == [ status |-> status, assignee |-> assignee,
                priority |-> priority ]
  IN
  IF ~tasksHas(tasks, taskId)
  THEN /\ res' = [ op |-> "updateTask", status |-> 404, success |-> FALSE,
                   taskId |-> taskId, body |-> body ]
       /\ lastNotifs' = << >> /\ delivered' = {}
       /\ UNCHANGED << adapter, rooms, agents, messages, tasks, fileWatcher, db, dbQueue,
                       connected, sockRooms, nextSock, sockAgents, now, nextId >>
  ELSE
  LET task == mergeTask(tasksGet(tasks, taskId), status, assignee, priority,
                        now)
  IN
  /\ Len(dbQueue) < MaxPending
  /\ tasks' = tasksSet(tasks, taskId, task)
  /\ dbQueue' = Append(dbQueue, TaskUpdateStmt(task))
  /\ delivered' = EmitTask(connected, sockRooms, task.room, "updated", taskId)
  /\ res' = [ op |-> "updateTask", status |-> 200, success |-> TRUE,
              taskId |-> taskId, body |-> body, task |-> task ]
  /\ lastNotifs' = << >>
  /\ UNCHANGED << adapter, rooms, agents, messages, fileWatcher, db, connected,
                  sockRooms, nextSock, sockAgents, now, nextId >>

\* ------------------------------------------------------------------ Spec
\* Messaging: the request handlers that touch the room logs and the agent
\* registry.  No handler reads db or dbQueue, so the moment at which sqlite
\* executes a queued statement cannot change what these handlers do.
Next ==
  \/ \E r \in RoomNames, a \in AgentIds, n \in Names : Join(r, a, n)
  \/ \E a \in AgentIds : Leave(a)
  \/ \E a \in AgentIds, c \in Contents : Send(a, c)
  \/ Tick(MaxTimeMsg)

Spec == Init /\ [][Next]_vars

\* input sets of the narrower specifications
OneRoom      == { <<"r", 1>> }
OneAgent     == { <<"a", 1>> }
OneName      == { <<"a">> }
PlainContent == { <<"a">> }

\* Push delivery: the handlers above together with the socket.io sessions.
PushContents == { <<"@", "a">> }

NextPush ==
  \/ \E r \in OneRoom, a \in AgentIds, n \in OneName : Join(r, a, n)
  \/ \E a \in AgentIds : Leave(a)
  \/ \E a \in AgentIds, c \in PushContents : Send(a, c)
  \/ Connect
  \/ \E s \in SocketIds, a \in AgentIds, r \in OneRoom \cup SocketIds :
       Register(s, a, r)
  \/ \E s \in SocketIds : Disconnect(s)

SpecPush == Init /\ [][NextPush]_vars

\* History: the room log as the history endpoint reads it.
NextHistory ==
  \/ \E r \in OneRoom, a \in OneAgent, n \in OneName : Join(r, a, n)
  \/ \E a \in OneAgent, c \in PlainContent : Send(a, c)
  \/ Tick(MaxTime)
  \/ \E r \in OneRoom, since \in Sinces, l \in Limits : History(r, since, l)

SpecHistory == Init /\ [][NextHistory]_vars

\* Store: the handlers whose answers come from the sqlite tables, with sqlite
\* executing the queued statements in any order (the database handle is in
\* its default parallel mode outside initializeSystem).
NextStore ==
  \/ \E r \in OneRoom, a \in AgentIds, n \in OneName : Join(r, a, n)
  \/ \E a \in AgentIds, c \in PushContents : Send(a, c)
  \/ \E i \in 1..Len(dbQueue) : DbCommit(i)
  \/ \E n \in 1..MaxIds : MarkRead(uuidv4(n))

SpecStore == Init /\ [][NextStore]_vars

\* Memory: the hub once agent a1 has joined room r1 under the name "a" and
\* sqlite has executed the three statements of that join.
InitJoined ==
  LET r     == <<"r", 1>>
      room  == NewRoom(r, 0)
      agent == NewAgent(<<"a", 1>>, <<"a">>, r, 0)
      msg   == JoinMessage(uuidv4(2), <<"a">>, r, 0)
  IN
  /\ rooms = MapSet(<< >>, r, [room EXCEPT !.agents = {agent.id}])
  /\ agents = << agent >>
  /\ messages = MapSet(<< >>, r, << msg >>)
  /\ tasks = << >>
  /\ fileWatcher = {r}
  /\ db = ApplyStmt(ApplyStmt(ApplyStmt(EmptyDb, RoomStmt(room, uuidv4(1))),
                              AgentStmt(agent)),
                    MessageStmt(msg))
  /\ dbQueue = << >>
  /\ connected = {}
  /\ sockRooms = [s \in SocketIds |-> {}]
  /\ nextSock = 0
  /\ sockAgents = [s \in SocketIds |-> {}]
  /\ now = 0
  /\ nextId = 2
  /\ res = NoResponse
  /\ lastNotifs = << >>
  /\ delivered = {}
  /\ adapter = InitAdapter

NextMemory ==
  \/ \E a \in AgentIds, k \in OneKey, ty \in {UNDEFINED}, e \in ExpiresIns :
       StoreMemory(a, k, ty, e)
  \/ \E a \in AgentIds, k \in Keys \cup {UNDEFINED}, ty \in MemoryTypes :
       GetMemory(a, k, ty)
  \/ \E i \in 1..Len(dbQueue) : DbCommit(i)
  \/ Tick(MaxTime)

SpecMemory == InitJoined /\ [][NextMemory]_vars

\* Rooms: membership as join and leave change it and as the listing
\* endpoints report it.
NextRooms ==
  \/ \E r \in RoomNames, a \in AgentIds, n \in OneName : Join(r, a, n)
  \/ \E a \in AgentIds : Leave(a)
  \/ ListRooms
  \/ \E r \in RoomNames : ListAgents(r)
  \/ Tick(MaxTimeMsg)

SpecRooms == Init /\ [][NextRooms]_vars

\* Restart: the hub across a stop and start of its process, with sqlite
\* executing the queued statements in any order while the process lives.
NoLimit == { [kind |-> "undefined"] }

NextRestart ==
  \/ \E r \in RoomNames, a \in OneAgent, n \in OneName : Join(r, a, n)
  \/ \E a \in OneAgent : Leave(a)
  \/ \E a \in AgentIds, c \in PlainContent : Send(a, c)
  \/ \E i \in 1..Len(dbQueue) : DbCommit(i)
  \/ Restart
  \/ ListRooms
  \/ \E r \in RoomNames, l \in NoLimit : History(r, UNDEFINED, l)

SpecRestart == Init /\ [][NextRestart]_vars

OneAssignee == { <<"a">> }

\* Broadcast: the handlers that name a room without consulting the rooms Map
\* first, next to join, which creates rooms, and listAgents, which checks.
NoPriority == { UNDEFINED }

NextBroadcast ==
  \/ \E r \in OneRoom, a \in OneAgent, n \in OneName : Join(r, a, n)
  \/ \E r \in RoomNames, c \in PlainContent, f \in Froms : Broadcast(r, c, f)
  \/ \E r \in RoomNames, ti \in Titles, as \in OneAssignee, pr \in NoPriority :
       CreateTask(r, ti, as, pr)
  \/ \E r \in RoomNames : ListAgents(r)
  \/ Tick(MaxTimeMsg)

SpecBroadcast == Init /\ [][NextBroadcast]_vars

\* Tasks: the task board as created and listed, with the push sessions that
\* hear of it.
NextTasks ==
  \/ \E r \in OneRoom, a \in OneAgent, n \in OneName : Join(r, a, n)
  \/ Connect
  \/ \E s \in SocketIds, a \in OneAgent, r \in RoomNames : Register(s, a, r)
  \/ \E r \in RoomNames, ti \in Titles, as \in OneAssignee, pr \in Priorities :
       CreateTask(r, ti, as, pr)
  \/ \E r \in RoomNames : ListTasks(r)

SpecTasks == Init /\ [][NextTasks]_vars

\* Task updates: tasks as update requests change them, with sqlite executing
\* the queued statements.
NextTaskUpdate ==
  \/ \E r \in OneRoom, ti \in Titles, as \in OneAssignee, pr \in NoPriority :
       CreateTask(r, ti, as, pr)
  \/ \E n \in 1..MaxIds, st \in TaskStatuses, as \in Assignees,
        pr \in Priorities : UpdateTask(uuidv4(n), st, as, pr)
  \/ \E i \in 1..Len(dbQueue) : DbCommit(i)
  \/ Tick(MaxTimeMsg)

SpecTaskUpdate == Init /\ [][NextTaskUpdate]_vars

\* Task values: the task board under requests that carry values outside the
\* enumerations the adapter's tool schemas declare.
TaskStatusEnum   == { <<"todo">>, <<"in_progress">>, <<"review">>,
                      <<"done">>, <<"blocked">> }
TaskPriorityEnum == { <<"low">>, <<"medium">>, <<"high">> }
AnyPriorities    == { UNDEFINED, <<"high">>, <<"urgent">> }
AnyStatuses      == { UNDEFINED, <<"done">>, <<"archived">> }
NoAssignee       == { UNDEFINED }

NextTaskEnum ==
  \/ \E r \in OneRoom, ti \in Titles, as \in OneAssignee, pr \in AnyPriorities :
       CreateTask(r, ti, as, pr)
  \/ \E n \in 1..MaxIds, st \in AnyStatuses, as \in NoAssignee,
        pr \in AnyPriorities : UpdateTask(uuidv4(n), st, as, pr)
  \/ \E r \in OneRoom : ListTasks(r)
  \/ \E i \in 1..Len(dbQueue) : DbCommit(i)

SpecTaskEnum == Init /\ [][NextTaskEnum]_vars

\* Validation: join and send under requests whose body lacks a field.
MaybeAgent   == OneAgent \cup { UNDEFINED }
MaybeName    == OneName \cup { UNDEFINED }
MaybeContent == PlainContent \cup PushContents \cup { UNDEFINED }

NextValidation ==
  \/ \E r \in OneRoom, a \in MaybeAgent, n \in MaybeName : Join(r, a, n)
  \/ \E a \in MaybeAgent, c \in MaybeContent : Send(a, c)
  \/ Tick(MaxTimeMsg)

SpecValidation == Init /\ [][NextValidation]_vars

\* Persistence: what is in memory and what has been pushed, against what
\* sqlite has committed.
NextPersist ==
  \/ \E r \in OneRoom, a \in OneAgent, n \in OneName : Join(r, a, n)
  \/ Connect
  \/ \E s \in SocketIds, a \in OneAgent, r \in OneRoom : Register(s, a, r)
  \/ \E a \in OneAgent, c \in PushContents : Send(a, c)
  \/ \E i \in 1..Len(dbQueue) : DbCommit(i)

SpecPersist == Init /\ [][NextPersist]_vars

\* Store failures: the mutating handlers with sqlite executing or failing
\* the statements they queued.
NoExpiry == { [kind |-> "undefined"] }
NoType   == { UNDEFINED }

NextStoreFail ==
  \/ \E r \in OneRoom, a \in OneAgent, n \in OneName : Join(r, a, n)
  \/ \E a \in OneAgent, c \in PlainContent : Send(a, c)
  \/ \E a \in OneAgent, k \in OneKey, ty \in NoType, e \in NoExpiry :
       StoreMemory(a, k, ty, e)
  \/ \E i \in 1..Len(dbQueue) : DbCommit(i)
  \/ \E i \in 1..Len(dbQueue), crashes \in BOOLEAN : DbFail(i, crashes)

SpecStoreFail == Init /\ [][NextStoreFail]_vars

\* Ordering: every handler that appends to a room log, with the sessions
\* that hear of it.
NoFrom == { UNDEFINED }

NextOrder ==
  \/ \E r \in RoomNames, a \in OneAgent, n \in OneName : Join(r, a, n)
  \/ \E a \in OneAgent : Leave(a)
  \/ \E a \in OneAgent, c \in PlainContent : Send(a, c)
  \/ \E r \in RoomNames, c \in PlainContent, f \in NoFrom : Broadcast(r, c, f)
  \/ \E r \in RoomNames, ev \in WatchEvents, f \in Paths : FileChange(r, ev, f)
  \/ Connect
  \/ \E s \in SocketIds, a \in OneAgent, r \in RoomNames : Register(s, a, r)

SpecOrder == Init /\ [][NextOrder]_vars

\* Mirror: every handler that changes rooms, agents, logs or tasks, with
\* sqlite executing the statements they queued.
NextMirror ==
  \/ \E r \in OneRoom, a \in OneAgent, n \in OneName : Join(r, a, n)
  \/ \E a \in OneAgent : Leave(a)
  \/ \E a \in OneAgent, c \in PlainContent : Send(a, c)
  \/ \E r \in OneRoom, c \in PlainContent, f \in NoFrom : Broadcast(r, c, f)
  \/ \E r \in OneRoom, ti \in Titles, as \in OneAssignee, pr \in NoPriority :
       CreateTask(r, ti, as, pr)
  \/ \E i \in 1..Len(dbQueue) : DbCommit(i)

SpecMirror == Init /\ [][NextMirror]_vars

\* Logs: every handler that appends to a room log, with time passing.
NextLog ==
  \/ \E r \in RoomNames, a \in AgentIds, n \in OneName : Join(r, a, n)
  \/ \E a \in AgentIds : Leave(a)
  \/ \E a \in AgentIds, c \in PlainContent : Send(a, c)
  \/ \E r \in RoomNames, c \in PlainContent, f \in NoFrom : Broadcast(r, c, f)
  \/ \E r \in RoomNames, ev \in WatchEvents, f \in Paths : FileChange(r, ev, f)
  \/ Tick(MaxTimeMsg)

SpecLog == Init /\ [][NextLog]_vars

\* Watchers: changes under the shared directory, for rooms created by a
\* join and rooms loaded from the store when the process starts.
OneWatchEvent == { "change" }

NextWatch ==
  \/ \E r \in RoomNames, a \in OneAgent, n \in OneName : Join(r, a, n)
  \/ \E i \in 1..Len(dbQueue) : DbCommit(i)
  \/ Restart
  \/ Connect
  \/ \E s \in SocketIds, a \in OneAgent, r \in OneRoom : Register(s, a, r)
  \/ \E ev \in OneWatchEvent, f \in Paths, order \in WatcherOrders(fileWatcher) :
       FsChange(ev, f, order)

SpecWatch == Init /\ [][NextWatch]_vars

\* Echo: the handlers that publish message events, the socket `message`
\* handler among them.
NextEcho ==
  \/ \E r \in OneRoom, a \in OneAgent, n \in OneName : Join(r, a, n)
  \/ \E a \in OneAgent, c \in PlainContent : Send(a, c)
  \/ \E r \in RoomNames, c \in PlainContent, f \in NoFrom : Broadcast(r, c, f)
  \/ Connect
  \/ \E s \in SocketIds, a \in OneAgent, r \in RoomNames : Register(s, a, r)
  \/ \E s \in SocketIds, id \in ClientIds, r \in DataRooms :
       SocketMessage(s, [id |-> id, room |-> r])

SpecEcho == Init /\ [][NextEcho]_vars

\* Leaving: one agent joining and leaving one room, its push session, and
\* the handlers that publish to the room.
NextLeave ==
  \/ \E r \in OneRoom, a \in OneAgent, n \in OneName : Join(r, a, n)
  \/ \E a \in OneAgent : Leave(a)
  \/ Connect
  \/ \E s \in SocketIds, a \in OneAgent, r \in OneRoom : Register(s, a, r)
  \/ \E a \in OneAgent, c \in PlainContent : Send(a, c)
  \/ \E r \in OneRoom, c \in PlainContent, f \in NoFrom : Broadcast(r, c, f)
  \/ \E r \in OneRoom, ti \in Titles, as \in OneAssignee, pr \in NoPriority :
       CreateTask(r, ti, as, pr)

SpecLeave == Init /\ [][NextLeave]_vars

\* Counts: membership as join and leave change it and as the listing and
\* stats endpoints count it.
NextStats ==
  \/ \E r \in RoomNames, a \in AgentIds, n \in OneName : Join(r, a, n)
  \/ \E a \in AgentIds : Leave(a)
  \/ ListRooms
  \/ \E r \in RoomNames : ListAgents(r)
  \/ Stats

SpecStats == Init /\ [][NextStats]_vars

\* ---------------------------------------------------- hub routes, adapter
\* a segment of a route pattern: a literal, or a parameter such as :agentId
Lit(text)   == [param |-> FALSE, text |-> text]
Param(name) == [param |-> TRUE, text |-> name]

\* the POST routes the hub registers, in the order of registration
HubPostRoutes ==
  << [name |-> "join",      pattern |-> << Lit("api"), Lit("join"), Param("room") >>],
     [name |-> "leave",     pattern |-> << Lit("api"), Lit("leave"), Param("agentId") >>],
     [name |-> "send",      pattern |-> << Lit("api"), Lit("send") >>],
     [name |-> "tasks",     pattern |-> << Lit("api"), Lit("tasks") >>],
     [name |-> "broadcast", pattern |-> << Lit("api"), Lit("broadcast"), Param("room") >>],
     [name |-> "updateTask",
      pattern |-> << Lit("api"), Lit("tasks"), Param("taskId"), Lit("update") >>],
     [name |-> "memory",    pattern |-> << Lit("api"), Lit("memory"), Param("agentId") >>],
     [name |-> "markRead",
      pattern |-> << Lit("api"), Lit("notifications"),
                     Param("notificationId"), Lit("read") >>] >>

\* Express matches a path against a pattern segment by segment; a parameter
\* takes exactly one segment
pathMatches(pattern, path) ==
  /\ Len(pattern) = Len(path)
  /\ \A i \in DOMAIN pattern : pattern[i].param \/ pattern[i].text = path[i]

\* the name of the first POST route that matches the path, "none" if none
matchRoute(path) ==
  IF \E i \in DOMAIN HubPostRoutes : pathMatches(HubPostRoutes[i].pattern, path)
    THEN HubPostRoutes[
           CHOOSE i \in DOMAIN HubPostRoutes :
             /\ pathMatches(HubPostRoutes[i].pattern, path)
             /\ \A j \in 1..(i - 1) :
                  ~pathMatches(HubPostRoutes[j].pattern, path)].name
    ELSE "none"

\* The hub serves a POST request of the adapter: the join and leave routes
\* run their handlers, a path no route matches is answered 404 by Express.
ServePost(path, body) ==
  LET route == matchRoute(path) IN
  /\ route \in {"join", "leave", "none"}
  /\ IF route = "join" THEN Join(path[3], body.agentId, body.agentName)
     ELSE IF route = "leave" THEN Leave(path[3])
     ELSE /\ res' = [ op |-> "notFound", status |-> 404, path |-> path ]
          /\ lastNotifs' = << >> /\ delivered' = {}
          /\ UNCHANGED << adapter, rooms, agents, messages, tasks, fileWatcher,
                          db, dbQueue, connected, sockRooms, nextSock,
                          sockAgents, now, nextId >>

\* the request of joinRoom: axios.post(`${SERVER_URL}/api/join/${roomName}`, ...)
joinRequest(a) ==
  [ path |-> << "api", "join", a.currentRoom >>,
    body |-> [ agentId |-> a.currentAgentId, agentName |-> a.agentName ] ]

\* the request of leaveRoom: axios.post(`${SERVER_URL}/api/leave`, { agentId })
leaveRequest(a) ==
  [ path |-> << "api", "leave" >>,
    body |-> [ agentId |-> a.currentAgentId ] ]

\* axios resolves for a 2xx status and rejects for any other
axiosResolves(response) == response.status >= 200 /\ response.status < 300

\* joinRoom up to its await: the globals are set before the request is sent
AdapterJoinStart(roomName, agentId, name) ==
  /\ adapter.awaiting = "none"
  /\ adapter' = [adapter EXCEPT !.currentAgentId = agentId,
                                !.currentRoom = roomName,
                                !.agentName = name,
                                !.awaiting = "join"]
  /\ res' = NoResponse /\ lastNotifs' = << >> /\ delivered' = {}
  /\ UNCHANGED << rooms, agents, messages, tasks, fileWatcher, db, dbQueue,
                  connected, sockRooms, nextSock, sockAgents, now, nextId >>

\* joinRoom after its await: connectSocket() on success, an error otherwise
AdapterJoinDone ==
  /\ adapter.awaiting = "join"
  /\ res.op \in {"join", "notFound"}
  /\ adapter' = [adapter EXCEPT !.awaiting = "none",
                                !.socket = IF axiosResolves(res)
                                             THEN <<"io">> ELSE @]
  /\ res' = [ op |-> "room_join", success |-> axiosResolves(res),
              agentId |-> adapter.currentAgentId,
              roomName |-> adapter.currentRoom ]
  /\ UNCHANGED << rooms, agents, messages, tasks, fileWatcher, db, dbQueue,
                  connected, sockRooms, nextSock, sockAgents, now, nextId,
                  lastNotifs, delivered >>

\* leaveRoom up to its await; without a current agent it throws at once
AdapterLeaveStart ==
  /\ adapter.awaiting = "none"
  /\ IF adapter.currentAgentId = NULL
       THEN /\ res' = [ op |-> "room_leave", success |-> FALSE,
                        agentId |-> NULL, roomName |-> NULL ]
            /\ UNCHANGED adapter
       ELSE /\ res' = NoResponse
            /\ adapter' = [adapter EXCEPT !.awaiting = "leave"]
  /\ lastNotifs' = << >> /\ delivered' = {}
  /\ UNCHANGED << rooms, agents, messages, tasks, fileWatcher, db, dbQueue,
                  connected, sockRooms, nextSock, sockAgents, now, nextId >>

\* leaveRoom after its await: on success the socket is dropped and the
\* globals are cleared, otherwise the catch block throws and they stay
AdapterLeaveDone ==
  /\ adapter.awaiting = "leave"
  /\ res.op \in {"leave", "notFound"}
  /\ adapter' = IF axiosResolves(res)
                  THEN [adapter EXCEPT !.awaiting = "none",
                                       !.socket = NULL,
                                       !.currentAgentId = NULL,
                                       !.currentRoom = NULL,
                                       !.messageHistory = << >>,
                                       !.notifications = << >>]
                  ELSE [adapter EXCEPT !.awaiting = "none"]
  /\ res' = [ op |-> "room_leave", success |-> axiosResolves(res),
              agentId |-> adapter.currentAgentId,
              roomName |-> adapter.currentRoom ]
  /\ UNCHANGED << rooms, agents, messages, tasks, fileWatcher, db, dbQueue,
                  connected, sockRooms, nextSock, sockAgents, now, nextId,
                  lastNotifs, delivered >>

\* the mentions of the message with the given id, << >> when no log has it
mentionsOfMessage(msgs, id) ==
  LET found == { m \in UNION { Range(msgs[r]) : r \in DOMAIN msgs } :
                   m.id = id /\ m.type = "message" }
  IN  IF found = {} THEN << >> ELSE (CHOOSE m \in found : TRUE).mentions

\* the events the adapter's socket has handlers for
adapterEvents(s) ==
  { d \in delivered : d.sock = s /\ d.event \in {"message", "notification"} }

\* socket.on('message') and socket.on('notification') of the adapter, for one
\* event the hub delivered to the adapter's socket.  The history stays far
\* below the 1000 entries at which the handler cuts it, and watchPatterns is
\* empty, as it is when the process starts.
AdapterOnEvent(s, d) ==
  /\ adapter.socket # NULL
  /\ s \in connected
  /\ d \in adapterEvents(s)
  /\ adapter' =
       IF d.event = "message"
         THEN [adapter EXCEPT
                 !.messageHistory = Append(@, d.id),
                 !.notifications =
                    IF adapter.agentName
                         \in Range(mentionsOfMessage(messages, d.id))
                      THEN Append(@, [type |-> "mention", message |-> d.id])
                      ELSE @]
         ELSE [adapter EXCEPT
                 !.notifications = Append(@, [type |-> "system",
                                              message |-> d.id])]
  /\ delivered' = delivered \ {d}
  /\ UNCHANGED << rooms, agents, messages, tasks, fileWatcher, db, dbQueue,
                  connected, sockRooms, nextSock, sockAgents, now, nextId,
                  res, lastNotifs >>

\* Adapter: one adapter process joining and leaving through the hub, next to
\* a second client of the hub.  The adapter is the only push client, its
\* socket is the one open socket; the events the hub delivers to it are
\* handled before anything else happens.
OtherAgent == { <<"a", 2>> }
OtherName  == { <<"b">> }

adapterQuiet ==
  /\ adapter.awaiting = "none"
  /\ \A s \in connected : adapterEvents(s) = {}

NextAdapter ==
  \/ \E r \in OneRoom, a \in OneAgent, n \in OneName :
       /\ adapterQuiet /\ adapter.currentAgentId = NULL
       /\ AdapterJoinStart(r, a, n)
  \/ /\ adapter.awaiting = "join" /\ res = NoResponse
     /\ ServePost(joinRequest(adapter).path, joinRequest(adapter).body)
  \/ AdapterJoinDone
  \/ /\ adapterQuiet /\ adapter.socket # NULL /\ connected = {}
     /\ Connect
  \/ \E s \in connected :
       /\ adapterQuiet /\ adapter.currentAgentId # NULL
       /\ adapter.currentRoom \notin sockRooms[s]
       /\ Register(s, adapter.currentAgentId, adapter.currentRoom)
  \/ \E s \in connected : \E d \in adapterEvents(s) : AdapterOnEvent(s, d)
  \/ \E r \in OneRoom, a \in OtherAgent, n \in OtherName :
       adapterQuiet /\ Join(r, a, n)
  \/ \E a \in OtherAgent, c \in PushContents : adapterQuiet /\ Send(a, c)
  \/ adapterQuiet /\ AdapterLeaveStart
  \/ /\ adapter.awaiting = "leave" /\ res = NoResponse
     /\ ServePost(leaveRequest(adapter).path, leaveRequest(adapter).body)
  \/ AdapterLeaveDone

SpecAdapter == Init /\ [][NextAdapter]_vars

\* ================================================================ claims
\* the sender of the last send request and the log of its room
Sender    == agentsGet(agents, res.agentId)
SenderLog == messages[Sender.room]
SendOk    == res.op = "send" /\ res.success
\* the mention names that match the name of a known agent
Known(name) == \E k \in DOMAIN agents : agents[k].name = name

\* C1: after a successful send the log of the sender's room ends with the
\* message whose id the response carries, and that message's mentions are
\* the names the mention parser finds in the content, in order, duplicates kept.
C1_SendAppendsParsedMessage ==
  SendOk =>
    /\ Len(SenderLog) > 0
    /\ Last(SenderLog).id = res.messageId
    /\ Last(SenderLog).content = res.content
    /\ Last(SenderLog).mentions = parseMentions(res.content)
    /\ res.mentions = parseMentions(res.content)

\* C1 witness: a successful send whose content names the same agent twice
C1_Witness ==
  /\ SendOk
  /\ res.content = <<"@", "a", "@", "a">>
  /\ Last(SenderLog).mentions = << <<"a">>, <<"a">> >>

\* C2 (as claimed): every known agent whose name the message mentions gets
\* exactly one notification for that message, carrying the message's room,
\* however often it is named.
C2_OneNotificationPerRecipient ==
  SendOk =>
    \A i \in DOMAIN res.mentions :
      LET recipient == findAgentByName(agents, res.mentions[i]) IN
      recipient.id # UNDEFINED =>
        Cardinality({ k \in DOMAIN lastNotifs :
                        /\ lastNotifs[k].agent_id = recipient.id
                        /\ lastNotifs[k].room = Sender.room }) = 1

\* C3: a send that mentions a name no known agent bears (names compared
\* exactly, case included) records the name in the stored message and builds
\* no notification for it: there is one notification per mention that does
\* match, each addressed to an agent bearing a mentioned name.
C3_UnknownMentionRecordedNotNotified ==
  SendOk =>
    LET names == parseMentions(res.content)
        matching == { i \in DOMAIN names : Known(names[i]) }
    IN  /\ \A i \in DOMAIN names :
             ~Known(names[i]) => names[i] \in Range(Last(SenderLog).mentions)
        /\ Len(lastNotifs) = Cardinality(matching)
        /\ \A k \in DOMAIN lastNotifs :
             agentsGet(agents, lastNotifs[k].agent_id).name
               \in { names[i] : i \in matching }

\* C3 witness: an agent named "a" is known, the content mentions "A", and no
\* notification is built
C3_Witness ==
  /\ SendOk
  /\ res.content = <<"@", "A">>
  /\ Known(<<"a">>) /\ ~Known(<<"A">>)
  /\ <<"A">> \in Range(Last(SenderLog).mentions)
  /\ lastNotifs = << >>

\* the open sessions that a register frame bound to agent a
ActiveSessions(a) == { s \in connected : a \in sockAgents[s] }

\* C4 (as claimed): a notification built for a recipient that has an active
\* push session (one registered for it and still connected; taken here only
\* when it is the recipient's single such session) is emitted on that session.
C4_ActiveSessionNotified ==
  \A k \in DOMAIN lastNotifs :
    \A s \in SocketIds :
      ActiveSessions(lastNotifs[k].agent_id) = {s} =>
        [sock |-> s, event |-> "notification", id |-> lastNotifs[k].id]
          \in delivered

\* C5 (as claimed): a notification event reaches only a session that a
\* register frame bound to the notification's recipient.
C5_OnlyRecipientSession ==
  \A d \in delivered :
    d.event = "notification" =>
      \E k \in DOMAIN lastNotifs :
        /\ lastNotifs[k].id = d.id
        /\ lastNotifs[k].agent_id \in sockAgents[d.sock]

\* C6 (as claimed): the first markNotificationRead of an existing
\* notification reports updated and leaves it read; a call on a notification
\* that is already read leaves it read and reports not updated.
RowRead(id) ==
  \A i \in DOMAIN db.notifications :
    db.notifications[i].id = id => db.notifications[i].is_read = 1
C6_MarkReadIdempotent ==
  res.op = "markRead" =>
    /\ res.before = <<"is_read", 0>> => (res.updated /\ RowRead(res.id))
    /\ res.before = <<"is_read", 1>> => (~res.updated /\ RowRead(res.id))

\* C7 (as claimed): getMemory returns a stored entry of the agent that
\* passes the key and type filters exactly when it has no expiry or the clock
\* has not passed its expiry.
C7_ExpiredEntriesAbsent ==
  res.op = "getMemory" =>
    \A row \in Range(db.agent_memory) :
      ( /\ row.agent_id = res.agentId
        /\ Truthy(res.key) => row.key = res.key
        /\ Truthy(res.type) => row.type = res.type )
      => ( row \in Range(res.memories)
             <=> ( \/ row.expires_at = NULL
                   \/ now <= getTime(row.expires_at).val ) )

\* the log a history request reads, and its last k entries
LogOf(room)    == IF room \in DOMAIN messages THEN messages[room] ELSE << >>
LastOf(log, k) == SubSeq(log, Len(log) - Min(k, Len(log)) + 1, Len(log))
\* the decimal string of a one-digit number
DigitString(n) == [kind |-> "string", chars |-> << Digits[n + 1] >>]

\* C8: history without since and with limit N >= 1 answers with the last
\* min(N, length) messages of the room's log, in log order.
C8_HistoryLastN ==
  \A n \in 1..9 :
    (res.op = "history" /\ res.since = UNDEFINED /\ res.limit = DigitString(n))
      => res.messages = LastOf(LogOf(res.room), n)

\* C8 witness: a log of three or more messages read with limit 2
C8_Witness ==
  /\ res.op = "history" /\ res.since = UNDEFINED
  /\ res.limit = DigitString(2)
  /\ Len(LogOf(res.room)) >= 3
  /\ Len(res.messages) = 2

\* C9 (as claimed): limit 0 answers with the empty list, and a negative or
\* non-numeric limit answers as the default limit does.
C9_LimitZeroOrInvalid ==
  res.op = "history" =>
    LET n == parseInt(limitOrDefault(res.limit)) IN
    /\ (~n.nan /\ n.val = 0) => res.messages = << >>
    /\ (n.nan \/ n.val < 0) =>
         res.messages = roomMessagesSince(messages, res.room, res.since,
                                          [kind |-> "undefined"])

\* the messages of a log stamped strictly later than the instant since
After(log, since) ==
  FilterBy(log, [i \in DOMAIN log |->
                   getTime(log[i].timestamp).val > getTime(since).val])

\* C10 (as claimed): with a since instant, history keeps the messages stamped
\* strictly later than since and answers with the last `limit` of them, for
\* every limit that is a count (0, 1, 2, ... or the default).
C10_SinceThenLimit ==
  res.op = "history" =>
    LET n == parseInt(limitOrDefault(res.limit)) IN
    (Len(res.since) = 3 /\ ~n.nan /\ n.val >= 0) =>
      res.messages = LastOf(After(LogOf(res.room), res.since), n.val)

\* the agentCount listRooms reports for a room, 0 for a room it does not list
AgentCount(rs, m, r) ==
  IF r \in DOMAIN rs THEN roomList(rs, m)[r].agentCount ELSE 0
\* the agent set of a room, empty for a room that does not exist
AgentSet(rs, r) == IF r \in DOMAIN rs THEN rs[r].agents ELSE {}

\* C11: listRooms reports for each room an agentCount equal to the size of
\* the room's agent set, and a join by an agent id that is not in the room's
\* agent set raises the agentCount listRooms reports for it by exactly one.
C11_AgentCountIsSetSize ==
  [][ /\ \A r \in DOMAIN rooms' :
           AgentCount(rooms', agents', r) = Cardinality(rooms'[r].agents)
      /\ res'.op = "listRooms" =>
           /\ DOMAIN res'.rooms = DOMAIN rooms'
           /\ \A r \in DOMAIN rooms' :
                res'.rooms[r].agentCount = Cardinality(rooms'[r].agents)
      /\ (res'.op = "join" /\ res'.agentId \notin AgentSet(rooms, res'.roomName))
           => AgentCount(rooms', agents', res'.roomName)
                = AgentCount(rooms, agents, res'.roomName) + 1 ]_vars

\* C11 witness: a join has brought a room to two agents
C11_Witness ==
  /\ res.op = "join"
  /\ roomList(rooms, agents)[res.roomName].agentCount = 2

\* C12 (as claimed): a join by an agent that the registry already holds as a
\* member of that room leaves the room's agent set, the agent's record and
\* the room's log as they were.
C12_JoinIdempotent ==
  [][ ( /\ res'.op = "join"
        /\ agentsHas(agents, res'.agentId)
        /\ agentsGet(agents, res'.agentId).room = res'.roomName
        /\ res'.agentId \in AgentSet(rooms, res'.roomName) )
      => /\ rooms'[res'.roomName].agents = rooms[res'.roomName].agents
         /\ agentsGet(agents', res'.agentId) = agentsGet(agents, res'.agentId)
         /\ messages'[res'.roomName] = messages[res'.roomName] ]_vars

\* the names of the rooms whose row sqlite has committed
CommittedRooms == { db.rooms[i].name : i \in DOMAIN db.rooms }

\* C13: every room that exists when the process restarts and whose row is
\* committed is listed by listRooms after the restart, under the same name.
C13_RoomsSurviveRestart ==
  [][ res'.op = "restart" =>
        \A r \in DOMAIN rooms \cap CommittedRooms :
          /\ r \in DOMAIN roomList(rooms', agents')
          /\ roomList(rooms', agents')[r].name = r ]_vars

\* C13 witness: the process has restarted and lists both rooms
C13_Witness ==
  /\ res.op = "restart"
  /\ DOMAIN roomList(rooms, agents) = RoomNames

\* the messages of a log whose row sqlite has committed, file changes left out
Persisted(log) ==
  FilterBy(log, [i \in DOMAIN log |->
                   /\ log[i].type # "file_change"
                   /\ \E k \in DOMAIN db.messages :
                        db.messages[k].id = log[i].id])

\* C14 (as claimed): after a restart, history answers for each room with the
\* persisted messages it answered with before the restart, in the same order.
C14_HistorySurvivesRestart ==
  [][ res'.op = "restart" =>
        \A r \in DOMAIN rooms :
          roomMessagesSince(messages', r, UNDEFINED, [kind |-> "undefined"])
            = Persisted(roomMessagesSince(messages, r, UNDEFINED,
                                          [kind |-> "undefined"])) ]_vars

\* C15 (as claimed): a successful leave takes the agent out of every room's
\* agent set and out of the registry and appends a system message saying
\* that it left to the log of its room; a leave for an unknown agent answers
\* not found and changes nothing.
C15_LeaveRemovesAgent ==
  [][ res'.op = "leave" =>
        IF res'.success
          THEN LET a    == res'.agentId
                   room == agentsGet(agents, a).room
               IN  /\ \A r \in DOMAIN rooms' : a \notin rooms'[r].agents
                   /\ ~agentsHas(agents', a)
                   /\ Len(messages'[room]) = Len(messages[room]) + 1
                   /\ Last(messages'[room]).type = "system"
                   /\ Last(messages'[room]).content
                        = agentsGet(agents, a).name \o <<" has left the room">>
          ELSE /\ res'.status = 404
               /\ UNCHANGED << adapter, rooms, agents, messages, tasks, db, dbQueue >>
               /\ delivered' = {} ]_vars

\* C16: a send by an agent id the registry does not hold answers not found,
\* leaves the room logs, the registry, the store and the statements queued
\* for it as they were, builds no notification and delivers no event.
C16_UnknownSenderRejected ==
  [][ (res'.op = "send" /\ ~agentsHas(agents, res'.agentId))
      => /\ res'.status = 404 /\ ~res'.success
         /\ UNCHANGED << adapter, rooms, agents, messages, tasks, db, dbQueue >>
         /\ lastNotifs' = << >>
         /\ delivered' = {} ]_vars

\* C16 witness: a send by an agent that joined earlier, whose row is in the
\* store, and that the registry no longer holds is answered not found
C16_Witness ==
  /\ res.op = "send" /\ res.status = 404
  /\ \E i \in DOMAIN db.agents : db.agents[i].id = res.agentId
  /\ ~agentsHas(agents, res.agentId)

\* the log of a room in the messages Map msgs, empty for a room without one
LogIn(msgs, room) == IF room \in DOMAIN msgs THEN msgs[room] ELSE << >>

\* C17 (as claimed): a broadcast that reports success has appended exactly
\* one message to the log of the room it names, of type broadcast and with
\* the content "[<from>] <content>", and the messageId it returns is the id
\* of that last entry of the log.
C17_BroadcastAppendsMessage ==
  [][ (res'.op = "broadcast" /\ res'.success)
      => /\ res'.room \in DOMAIN messages'
         /\ Len(LogIn(messages', res'.room)) = Len(LogIn(messages, res'.room)) + 1
         /\ Last(LogIn(messages', res'.room)).id = res'.messageId
         /\ Last(LogIn(messages', res'.room)).type = "broadcast"
         /\ Last(LogIn(messages', res'.room)).content
              = <<"[">> \o fromOrDefault(res'.from) \o <<"]", " ">>
                  \o res'.content ]_vars

\* C18 (as claimed): a broadcast, createTask or listAgents that names a room
\* which does not exist answers not found and leaves the room logs, the
\* tasks and the rooms as they were.
C18_MissingRoomNotFound ==
  [][ ( /\ res'.op \in {"broadcast", "createTask", "listAgents"}
        /\ res'.room \notin DOMAIN rooms )
      => /\ res'.status = 404
         /\ UNCHANGED << adapter, rooms, messages, tasks >> ]_vars

\* the open sessions subscribed to a room
RoomSessions(r) == { s \in connected : r \in sockRooms[s] }

\* C19: createTask answers with a task of status todo that listTasks returns
\* for the room named in the request and for no other room, and every open
\* session subscribed to that room, and no other session, gets a task event
\* of type created for it.
C19_CreateTaskTodoListed ==
  res.op = "createTask" =>
    /\ res.success
    /\ res.task.status = <<"todo">>
    /\ tasksHas(tasks, res.task.id)
    /\ tasksGet(tasks, res.task.id) = res.task
    /\ \A r \in RoomNames :
         (res.task \in Range(roomTasks(tasks, r))) <=> (r = res.room)
    /\ delivered = { [sock |-> s, event |-> "task", type |-> "created",
                      id |-> res.task.id] : s \in RoomSessions(res.room) }

\* C19 witness: a second task is created, in another room than the first,
\* and a session subscribed to its room hears of it
C19_Witness ==
  /\ res.op = "createTask"
  /\ Len(tasks) = 2
  /\ tasks[1].room # tasks[2].room
  /\ delivered # {}

\* C20 (as claimed): an update of an existing task sets each of status,
\* assignee and priority that the request carries to the value it carries,
\* sets updatedAt to the time of the request, and leaves the task's other
\* fields, its fields the request does not carry and every other task as they
\* were; an update of an unknown task answers not found and changes no task.
C20_UpdateOverwritesSupplied ==
  [][ res'.op = "updateTask" =>
        IF res'.success
          THEN LET old  == tasksGet(tasks, res'.taskId)
                   new  == tasksGet(tasks', res'.taskId)
                   body == res'.body
               IN  /\ new = [ old EXCEPT
                       !.status   = IF body.status # UNDEFINED
                                      THEN body.status ELSE @,
                       !.assignee = IF body.assignee # UNDEFINED
                                      THEN body.assignee ELSE @,
                       !.priority = IF body.priority # UNDEFINED
                                      THEN body.priority ELSE @,
                       !.updatedAt = toISOString(now') ]
                   /\ Len(tasks') = Len(tasks)
                   /\ \A i \in DOMAIN tasks :
                        tasks[i].id # res'.taskId => tasks'[i] = tasks[i]
          ELSE /\ res'.status = 404
               /\ ~tasksHas(tasks, res'.taskId)
               /\ tasks' = tasks ]_vars

\* C21 (as claimed): every task's status is one of todo, in_progress,
\* review, done, blocked and its priority one of low, medium, high, and a
\* createTask or updateTask request that carries another value is answered
\* with a validation error.
C21_TaskEnumsValidated ==
  /\ \A i \in DOMAIN tasks :
       /\ tasks[i].status \in TaskStatusEnum
       /\ tasks[i].priority \in TaskPriorityEnum
  /\ (res.op = "createTask" /\ res.task.priority \notin TaskPriorityEnum)
       => res.status = 400
  /\ ( /\ res.op = "updateTask"
       /\ \/ res.body.status \notin TaskStatusEnum \cup {UNDEFINED}
          \/ res.body.priority \notin TaskPriorityEnum \cup {UNDEFINED} )
       => res.status = 400

\* C22 (as claimed): a join whose body lacks agentId or agentName, and a send
\* whose body lacks content, is answered with a validation error and leaves
\* the rooms, the registry, the room logs, the store and the statements
\* queued for it as they were, and builds no notification.
C22_MissingFieldRejected ==
  [][ ( \/ /\ res'.op = "join"
           /\ UNDEFINED \in { res'.agentId, res'.agentName }
        \/ /\ res'.op = "send" /\ res'.success
           /\ res'.content = UNDEFINED )
      => /\ res'.status = 400
         /\ UNCHANGED << adapter, rooms, agents, messages, db, dbQueue >>
         /\ lastNotifs' = << >> ]_vars

\* C23 (as claimed): once a push session has disconnected, no agent record
\* refers to it: the push binding of every agent is null or an open session.
C23_BindingClearedOnDisconnect ==
  \A i \in DOMAIN agents :
    agents[i].socketId # NULL => agents[i].socketId \in connected

\* the ids the registry holds
RegistryIds(m) == { m[i].id : i \in DOMAIN m }

\* C24: the step in which a push session disconnects leaves every room's
\* agent set, the ids in the registry and every room log as they were.
C24_DisconnectKeepsMembership ==
  [][ (connected' # connected /\ connected' \subseteq connected
         /\ res'.op # "restart")
      => /\ DOMAIN rooms' = DOMAIN rooms
         /\ \A r \in DOMAIN rooms : rooms'[r].agents = rooms[r].agents
         /\ RegistryIds(agents') = RegistryIds(agents)
         /\ messages' = messages ]_vars

\* C24 witness: the session an agent was registered on has disconnected and
\* the agent is still in the registry and in its room's agent set
C24_Witness ==
  \E i \in DOMAIN agents :
    /\ agents[i].socketId \in SocketIds \ connected
    /\ agents[i].id \in sockAgents[agents[i].socketId]
    /\ agents[i].id \in rooms[agents[i].room].agents

\* the answer r is the answer to the request that queued statement st
Issued(st, r) ==
  \/ /\ r.op = "send" /\ r.success
     /\ st.sql = "INSERT INTO messages" /\ st.row.id = r.messageId
  \/ /\ r.op = "storeMemory" /\ r.success
     /\ st.sql = "INSERT INTO agent_memory" /\ st.row.id = r.memoryId
  \/ /\ r.op = "join"
     /\ st.sql = "INSERT OR REPLACE INTO agents" /\ st.row.id = r.agentId

\* C26 (as claimed): when the store write of a send, a join or a storeMemory
\* fails, the caller of that request was answered with a 5xx error and no
\* room log holds the message whose row failed.
C26_StoreFailureSurfaces ==
  [][ (res'.op = "storeFailure" /\ Issued(res'.stmt, res))
      => /\ res.status >= 500
         /\ \A r \in DOMAIN messages' :
              \A k \in DOMAIN messages'[r] :
                messages'[r][k].id # res'.stmt.row.id ]_vars

\* the ids of the rows sqlite has committed to a table
CommittedIds(table) == { table[k].id : k \in DOMAIN table }

\* C27 (as claimed): a notification event reaches a session only after the
\* row of that notification is committed.
C27_NotificationPersistedFirst ==
  \A d \in delivered :
    d.event = "notification" => d.id \in CommittedIds(db.notifications)

\* C28 (as claimed): a message is in a room log, and its event is
\* delivered, only after its row is committed.
C28_PersistBeforeMemoryAndPublish ==
  /\ \A r \in DOMAIN messages :
       \A k \in DOMAIN messages[r] :
         messages[r][k].id \in CommittedIds(db.messages)
  /\ \A d \in delivered :
       d.event = "message" => d.id \in CommittedIds(db.messages)

\* the position of the message with the given id in a log, 0 when absent
PositionIn(log, id) ==
  IF \E k \in DOMAIN log : log[k].id = id
    THEN CHOOSE k \in DOMAIN log : log[k].id = id
    ELSE 0

\* C30 (as claimed): the message rows of a room are committed in the order
\* in which the messages stand in the room's log.
C30_CommitOrderIsLogOrder ==
  \A i, j \in DOMAIN db.messages :
    ( /\ i < j
      /\ db.messages[i].room = db.messages[j].room
      /\ db.messages[i].room \in DOMAIN messages )
    => LET log == messages[db.messages[i].room]
           pi  == PositionIn(log, db.messages[i].id)
           pj  == PositionIn(log, db.messages[j].id)
       IN  (pi > 0 /\ pj > 0) => pi < pj

\* the log of a room in a messages Map, empty when the room has none
LogOrEmpty(msgs, r) == IF r \in DOMAIN msgs THEN msgs[r] ELSE << >>

\* the log of room r grew by exactly one message, at its end
AppendedTo(r) ==
  /\ r \in DOMAIN messages'
  /\ Len(messages'[r]) = Len(LogOrEmpty(messages, r)) + 1
  /\ SubSeq(messages'[r], 1, Len(messages'[r]) - 1) = LogOrEmpty(messages, r)

\* C29: per room, message events are published in log order and every
\* session subscribed to the room receives them in that order: a step either
\* leaves a log alone or appends one message at its end, the event of an
\* appended message reaches every open session subscribed to the room in
\* that same step, and no event of a logged message is delivered in any
\* other step.
C29_PublishOrderIsLogOrder ==
  [][ \A r \in DOMAIN messages' :
        /\ messages'[r] = LogOrEmpty(messages, r) \/ AppendedTo(r)
        /\ AppendedTo(r)
             => \A s \in connected :
                  r \in sockRooms[s]
                  => [sock |-> s, event |-> "message",
                      id |-> Last(messages'[r]).id] \in delivered'
        /\ \A d \in delivered' :
             ( /\ d.event = "message"
               /\ \E k \in DOMAIN messages'[r] : messages'[r][k].id = d.id )
             => AppendedTo(r) /\ d.id = Last(messages'[r]).id ]_vars

\* two sessions both receive the event of a file change that was appended
\* behind at least two earlier messages of the room
C29_Witness ==
  \E r \in DOMAIN messages :
    /\ Len(messages[r]) >= 3
    /\ Last(messages[r]).type = "file_change"
    /\ \E k \in DOMAIN messages[r] : messages[r][k].type = "message"
    /\ \A s \in SocketIds :
         [sock |-> s, event |-> "message", id |-> Last(messages[r]).id]
           \in delivered

\* C31 (as claimed): once no store write is pending, every room, every task
\* and every message that is not a file_change message has a store row with
\* its values, and every agent stored as active is in the registry.
C31_StoreMirrorsMemory ==
  dbQueue = << >> =>
    /\ \A r \in DOMAIN rooms :
         \E k \in DOMAIN db.rooms :
           /\ db.rooms[k].name = r
           /\ db.rooms[k].created_at = rooms[r].createdAt
    /\ \A i \in DOMAIN tasks :
         \E k \in DOMAIN db.tasks : db.tasks[k].id = tasks[i].id
    /\ \A r \in DOMAIN messages :
         \A i \in DOMAIN messages[r] :
           messages[r][i].type # "file_change"
           => \E k \in DOMAIN db.messages :
                /\ db.messages[k].id = messages[r][i].id
                /\ db.messages[k].room = r
                /\ db.messages[k].content = messages[r][i].content
    /\ \A k \in DOMAIN db.agents :
         db.agents[k].status = "active" => agentsHas(agents, db.agents[k].id)

\* C32: room logs are append-only (every step keeps each log's previous
\* contents as a prefix), and a successful send makes the sender's room log
\* one longer, leaves every other log as it was and sets the sender's
\* lastActive to the time of the send.
C32_LogsAppendOnly ==
  [][ /\ \A r \in DOMAIN messages :
           /\ r \in DOMAIN messages'
           /\ Len(messages'[r]) >= Len(messages[r])
           /\ SubSeq(messages'[r], 1, Len(messages[r])) = messages[r]
      /\ (res'.op = "send" /\ res'.success)
           => LET room == agentsGet(agents, res'.agentId).room IN
              /\ Len(messages'[room]) = Len(messages[room]) + 1
              /\ \A r \in DOMAIN messages' \ {room} :
                   r \in DOMAIN messages /\ messages'[r] = messages[r]
              /\ agentsGet(agents', res'.agentId).lastActive
                   = toISOString(now) ]_vars

\* a send has just been answered at a time later than the sender's join, in
\* a room whose log held a message before, next to another room with a log
C32_Witness ==
  /\ res.op = "send" /\ res.success
  /\ LET agent == agentsGet(agents, res.agentId) IN
     /\ agent.lastActive # agent.joinedAt
     /\ Len(messages[agent.room]) >= 2
     /\ Last(messages[agent.room]).id = res.messageId
     /\ \E r \in DOMAIN messages \ {agent.room} : Len(messages[r]) >= 1

\* C33 (as claimed): a change under the shared directory appends exactly one
\* file_change message to the log of every active room, rooms loaded from the
\* store included, and publishes it to the sessions subscribed to the room.
C33_EveryActiveRoomSeesChange ==
  [][ res'.op = "fsChange"
      => \A r \in DOMAIN rooms :
           rooms[r].isActive
           => /\ Len(messages'[r]) = Len(messages[r]) + 1
              /\ SubSeq(messages'[r], 1, Len(messages[r])) = messages[r]
              /\ Last(messages'[r]).type = "file_change"
              /\ \A s \in connected :
                   r \in sockRooms[s]
                   => [sock |-> s, event |-> "message",
                       id |-> Last(messages'[r]).id] \in delivered' ]_vars

\* C34 (as claimed): every message event delivered to a session is the event
\* of a message that stands in the log of a room the session is subscribed
\* to, so that history of that room returns it.
C34_DeliveredMessagesAreLogged ==
  \A d \in delivered :
    d.event = "message"
    => \E r \in DOMAIN messages :
         /\ r \in sockRooms[d.sock]
         /\ \E k \in DOMAIN messages[r] : messages[r][k].id = d.id

\* C35 (as claimed): an agent id is in at most one room's agent set, and it
\* is in the set of room r exactly when the registry holds the agent with
\* room = r.
C35_MembershipMatchesRegistry ==
  /\ \A r1, r2 \in DOMAIN rooms :
       r1 # r2 => rooms[r1].agents \cap rooms[r2].agents = {}
  /\ \A r \in DOMAIN rooms :
       \A a \in AgentIds :
         a \in rooms[r].agents
         <=> (agentsHas(agents, a) /\ agentsGet(agents, a).room = r)

\* C36 (as claimed): storeMemory for a known agent stores the entry with
\* expiresAt = now + expiresIn for every expiresIn supplied, 0 included, and
\* with no expiry only when expiresIn is omitted; for an unknown agent it
\* answers not-found and stores nothing.
C36_ExpiryFromExpiresIn ==
  [][ res'.op = "storeMemory"
      => IF agentsHas(agents, res'.agentId)
           THEN /\ res'.success
                /\ Len(dbQueue') = Len(dbQueue) + 1
                /\ Last(dbQueue').sql = "INSERT INTO agent_memory"
                /\ Last(dbQueue').row.expires_at
                     = IF res'.expiresIn.kind = "number"
                         THEN toISOString(now + res'.expiresIn.val)
                         ELSE NULL
           ELSE /\ res'.status = 404
                /\ dbQueue' = dbQueue /\ db' = db ]_vars

\* the delivered event d is a message or task event of room r
EventOfRoom(msgs, tks, d, r) ==
  \/ /\ d.event = "message"
     /\ r \in DOMAIN msgs
     /\ \E k \in DOMAIN msgs[r] : msgs[r][k].id = d.id
  \/ /\ d.event = "task"
     /\ \E k \in DOMAIN tks : tks[k].id = d.id /\ tks[k].room = r

\* C37 (as claimed): once a leave has been answered, the session that was
\* bound to the agent receives no message or task event of the room left;
\* stated for the step that follows the leave.
C37_NoEventsAfterLeave ==
  [][ (res.op = "leave" /\ res.success /\ res.socketId # NULL)
      => \A d \in delivered' :
           EventOfRoom(messages', tasks', d, res.room)
           => d.sock # res.socketId ]_vars

\* C38 (as claimed): a session comes to be subscribed to a room only by a
\* register frame that names a known agent who is a member of that room (the
\* room named after the session's own id, which socket.io gives it on
\* connection, aside); a register naming an unknown agent or another room
\* subscribes the session to nothing.
C38_SubscribedOnlyAsMember ==
  [][ \A s \in SocketIds :
        \A r \in sockRooms'[s] \ sockRooms[s] :
          \/ r = s
          \/ \E a \in AgentIds :
               /\ agentsHas(agents, a)
               /\ agentsGet(agents, a).room = r
               /\ agentsGet(agents', a).socketId = s ]_vars

\* the sum of the agentCount values of the entries for a set of rooms
RECURSIVE SumAgentCounts(_, _)
SumAgentCounts(entries, names) ==
  IF names = {} THEN 0
  ELSE LET n == CHOOSE x \in names : TRUE
       IN  entries[n].agentCount + SumAgentCounts(entries, names \ {n})

\* C39 (as claimed): for each room the agentCount of listRooms and of stats
\* equals the number of agent records listRooms and listAgents list for the
\* room, and stats.totalAgents is the sum of the rooms' agentCount values.
C39_CountsAgree ==
  LET list == roomList(rooms, agents)
      st   == stats(rooms, agents, tasks, messages)
  IN
  /\ \A r \in DOMAIN rooms :
       /\ list[r].agentCount = Cardinality(list[r].agents)
       /\ st.rooms[r].agentCount = Cardinality(list[r].agents)
       /\ st.rooms[r].agentCount = Cardinality(roomAgents(rooms[r], agents))
  /\ st.totalAgents = SumAgentCounts(st.rooms, DOMAIN rooms)

\* C40 (as claimed): when the adapter's room_leave returns after a join, the
\* hub no longer holds the agent in its registry or in any room's agent set,
\* and the adapter has cleared currentAgentId, currentRoom, its message
\* history and its notifications.
C40_AdapterLeaveReachesHub ==
  [][ (res'.op = "room_leave" /\ adapter.currentAgentId # NULL)
      => /\ ~agentsHas(agents', adapter.currentAgentId)
         /\ \A r \in DOMAIN rooms' :
              adapter.currentAgentId \notin rooms'[r].agents
         /\ adapter'.currentAgentId = NULL
         /\ adapter'.currentRoom = NULL
         /\ adapter'.messageHistory = << >>
         /\ adapter'.notifications = << >> ]_vars

====
